---- MODULE Spec2Model ----
(***************************************************************************)
(* Model of the sterkbouw-saas backend: the project permission engine      *)
(* (projects/permissions.py), the project/team service                     *)
(* (projects/service.py over core/database.py) and the API gateway         *)
(* middleware with its rate limiter (api/gateway.py), and the identity     *)
(* service (auth/auth_service.py, auth/security.py, auth/dependencies.py)  *)
(* and the billing service (billing/service.py).                           *)
(***************************************************************************)
EXTENDS Integers, Sequences, FiniteSets, Bags, TLC

VARIABLES
    perm,           \* one evaluation of check_permission: its arguments and its result
    projects,       \* table "projects": project id -> row, or NoProject
    team_members,   \* table "team_members": a set of rows
    last,           \* the last service call: handler, caller, truthy result or not
    now,            \* time.time(), in whole seconds
    local_cache,    \* RateLimiter.local_cache: (user_id, endpoint) -> timestamps
    gw,             \* the last request through the gateway and its response
    redis_client,   \* RateLimiter.redis_client is set (TRUE) or None (FALSE)
    redis,          \* the Redis server: key -> [count, expire_at], present keys only
    rl,             \* the last check_rate_limit call and the dict it returned
    history         \* the times of the check_rate_limit calls of the last 60
                    \* seconds (a bag), kept by the clock and not by the limiter

limiterVars == <<redis_client, redis, rl, history>>

VARIABLES
    users,          \* table "users": a set of rows
    companies,      \* table "companies": a set of rows
    sessions,       \* table "sessions": a set of rows
    reg,            \* the register calls in progress: call -> its local variables
    auth,           \* the last call of the identity service and what it returned
    today           \* datetime.now(), in whole days

authVars == <<users, companies, sessions, reg, auth, today>>

VARIABLES
    subscriptions,  \* table "subscriptions": a set of rows
    company_plan,   \* table "companies", the columns the billing service writes
    bill,           \* the last call of the billing service and what it returned
    documents,      \* table "documents": a set of rows
    tasks,          \* table "tasks": a set of rows
    counters,       \* table "projects", columns document_count and task_count
    inflight,       \* the project service calls in progress: call -> its locals
    rc              \* one evaluation of a role checker: current user, minimum, result

billingVars == <<subscriptions, company_plan, bill>>

contentVars == <<documents, tasks, counters, inflight>>

moreVars == <<billingVars, contentVars, rc>>

vars == <<perm, projects, team_members, last, now, local_cache, gw, limiterVars, authVars,
          moreVars>>

\* ------------------------------------------------------------------------
\* Enumerations (core/models.py, projects/models.py)
\* ------------------------------------------------------------------------
UserRole == {"admin", "company_admin", "project_manager", "estimator", "viewer"}

TeamRole == {"owner", "manager", "member", "viewer"}

ProjectStatus == {"draft", "active", "on_hold", "completed", "archived"}

\* The actions callers pass to the permission check; "export" stands for any
\* action string that is not a key of the matrix.
MatrixActions == {"view", "edit", "delete", "manage_team", "manage_documents",
                  "manage_tasks", "manage_calculations", "change_settings", "archive"}

ActionInputs == MatrixActions \cup {"export"}

\* Python's None
None == "None"

\* ------------------------------------------------------------------------
\* Bounded universes of ids
\* ------------------------------------------------------------------------
Users == {"u1", "u2", "u3"}

Companies == {"c1", "c2"}

\* the ids uuid4 hands to create_project, and an id no project row ever has
NewProjectIds == {"p1"}

ProjectIds == NewProjectIds \cup {"p0"}

\* ------------------------------------------------------------------------
\* projects/permissions.py
\* ------------------------------------------------------------------------
\* the matrix with one more grant: viewer may edit
PROJECT_PERMISSIONS_viewer_edits ==
    [r \in TeamRole |-> [a \in MatrixActions |->
        CASE r = "owner"   -> TRUE
          [] r = "manager" -> a \notin {"delete", "archive"}
          [] r = "member"  -> a \notin {"delete", "manage_team", "change_settings", "archive"}
          [] r = "viewer"  -> a \in {"view", "edit"}]]

PROJECT_PERMISSIONS ==
    [r \in TeamRole |-> [a \in MatrixActions |->
        CASE r = "owner"   -> TRUE
          [] r = "manager" -> a \notin {"delete", "archive"}
          [] r = "member"  -> a \notin {"delete", "manage_team", "change_settings", "archive"}
          [] r = "viewer"  -> a = "view"]]

\* get_team_member's "no row": the None that check_permission receives as
\* team_member.  A row carries at least role and is_active.
NoMember == [absent |-> TRUE]

\* check_permission with one rule dropped or changed: what each claim about a
\* rule must tell apart from the code.
check_permission_admin_as_member(user_id, user_role, project_id, team_member, action, project_status) ==
    IF user_role = "company_admin" THEN TRUE
    ELSE IF team_member = NoMember THEN FALSE
    ELSE IF ~team_member.is_active THEN FALSE
    ELSE IF action \notin DOMAIN PROJECT_PERMISSIONS[team_member.role] THEN FALSE
    ELSE IF project_status # None /\ project_status = "archived"
            /\ action \in {"edit", "delete"} THEN FALSE
    ELSE IF project_status # None /\ project_status = "completed"
            /\ action \in {"edit"} THEN team_member.role \in {"owner", "manager"}
    ELSE PROJECT_PERMISSIONS[team_member.role][action]

check_permission_inactive_counts(user_id, user_role, project_id, team_member, action, project_status) ==
    IF user_role = "admin" THEN TRUE
    ELSE IF user_role = "company_admin" THEN TRUE
    ELSE IF team_member = NoMember THEN FALSE
    ELSE IF action \notin DOMAIN PROJECT_PERMISSIONS[team_member.role] THEN FALSE
    ELSE IF project_status # None /\ project_status = "archived"
            /\ action \in {"edit", "delete"} THEN FALSE
    ELSE IF project_status # None /\ project_status = "completed"
            /\ action \in {"edit"} THEN team_member.role \in {"owner", "manager"}
    ELSE PROJECT_PERMISSIONS[team_member.role][action]

check_permission_archived_editable(user_id, user_role, project_id, team_member, action, project_status) ==
    IF user_role = "admin" THEN TRUE
    ELSE IF user_role = "company_admin" THEN TRUE
    ELSE IF team_member = NoMember THEN FALSE
    ELSE IF ~team_member.is_active THEN FALSE
    ELSE IF action \notin DOMAIN PROJECT_PERMISSIONS[team_member.role] THEN FALSE
    ELSE IF project_status # None /\ project_status = "archived"
            /\ action \in {"delete"} THEN FALSE
    ELSE IF project_status # None /\ project_status = "completed"
            /\ action \in {"edit"} THEN team_member.role \in {"owner", "manager"}
    ELSE PROJECT_PERMISSIONS[team_member.role][action]

check_permission_completed_as_matrix(user_id, user_role, project_id, team_member, action, project_status) ==
    IF user_role = "admin" THEN TRUE
    ELSE IF user_role = "company_admin" THEN TRUE
    ELSE IF team_member = NoMember THEN FALSE
    ELSE IF ~team_member.is_active THEN FALSE
    ELSE IF action \notin DOMAIN PROJECT_PERMISSIONS[team_member.role] THEN FALSE
    ELSE IF project_status # None /\ project_status = "archived"
            /\ action \in {"edit", "delete"} THEN FALSE
    ELSE PROJECT_PERMISSIONS[team_member.role][action]

check_permission(user_id, user_role, project_id, team_member, action, project_status) ==
    IF user_role = "admin" THEN TRUE
    ELSE IF user_role = "company_admin" THEN TRUE
    ELSE IF team_member = NoMember THEN FALSE
    ELSE IF ~team_member.is_active THEN FALSE
    ELSE IF action \notin DOMAIN PROJECT_PERMISSIONS[team_member.role] THEN FALSE
    ELSE IF project_status # None /\ project_status = "archived"
            /\ action \in {"edit", "delete"} THEN FALSE
    ELSE IF project_status # None /\ project_status = "completed"
            /\ action \in {"edit"} THEN team_member.role \in {"owner", "manager"}
    ELSE PROJECT_PERMISSIONS[team_member.role][action]

role_hierarchy ==
    [r \in TeamRole |->
        CASE r = "owner" -> 4 [] r = "manager" -> 3 [] r = "member" -> 2 [] r = "viewer" -> 1]

can_invite_members(inviter_role, invitee_role) ==
    role_hierarchy[inviter_role] >= role_hierarchy[invitee_role]

\* ------------------------------------------------------------------------
\* core/database.py: the tables the project service reads and writes.
\* A project row keeps the columns the modelled handlers read or write
\* (status, team_member_count); a team member row keeps project_id, user_id,
\* role and is_active.  The uuid of a team member row is modelled by the
\* pair it is created for, MemberId.
\* ------------------------------------------------------------------------
NoProject == [absent |-> TRUE]

NoCall == [op |-> "none"]

MemberIds == [project_id : ProjectIds, user_id : Users]

MemberId(m) == [project_id |-> m.project_id, user_id |-> m.user_id]

get_project_by_id(projs, project_id) == projs[project_id]

get_team_member(tms, project_id, user_id) ==
    IF \E m \in tms : m.project_id = project_id /\ m.user_id = user_id
    THEN CHOOSE m \in tms : m.project_id = project_id /\ m.user_id = user_id
    ELSE NoMember

get_team_member_by_id(tms, member_id) ==
    IF \E m \in tms : MemberId(m) = member_id
    THEN CHOOSE m \in tms : MemberId(m) = member_id
    ELSE NoMember

get_project_owners(tms, project_id) ==
    {m \in tms : m.project_id = project_id /\ m.role = "owner"}

delete_team_member(tms, member_id) ==
    {m \in tms : MemberId(m) # member_id}

increment_project_team_count(projs, project_id) ==
    IF projs[project_id] = NoProject THEN projs
    ELSE [projs EXCEPT ![project_id].team_member_count = @ + 1]

decrement_project_team_count(projs, project_id) ==
    IF projs[project_id] = NoProject THEN projs
    ELSE [projs EXCEPT ![project_id].team_member_count =
             IF @ - 1 > 0 THEN @ - 1 ELSE 0]

\* ------------------------------------------------------------------------
\* api/gateway.py: the rate limiter and the gateway middleware
\* ------------------------------------------------------------------------
SubscriptionPlan == {"free", "basic", "professional", "enterprise"}

plan_limits ==
    [plan \in SubscriptionPlan |->
        CASE plan = "free" ->
               [requests_per_minute |-> 60, requests_per_hour |-> 1000,
                requests_per_day |-> 10000]
          [] plan = "basic" ->
               [requests_per_minute |-> 120, requests_per_hour |-> 5000,
                requests_per_day |-> 50000]
          [] plan = "professional" ->
               [requests_per_minute |-> 300, requests_per_hour |-> 20000,
                requests_per_day |-> 200000]
          [] plan = "enterprise" ->
               [requests_per_minute |-> 1000, requests_per_hour |-> 100000,
                requests_per_day |-> 1000000]]

\* the users and paths of the requests the gateway is driven with
GatewayUsers == {"u1"}

WebhookPath == "/stripe/webhook"

Paths == {"/projects", WebhookPath}

CacheKeys == GatewayUsers \X Paths

\* a request may go on only while the caller's timestamp list is shorter
MaxRequests == 62

\* the clock moves in steps of TimeStep seconds, up to MaxTime
TimeStep == 30

MaxTime == 60

Max0(n) == IF n > 0 THEN n ELSE 0

_check_local_rate_limit_keeps_minute_old(cache, t, user_id, limits, endpoint) ==
    LET key == <<user_id, endpoint>>
        Recent(timestamp) == t - timestamp <= 60
        entries == Append(SelectSeq(cache[key], Recent), t)
        minute_count == Len(entries)
    IN  [cache |-> [cache EXCEPT ![key] = entries],
         allowed |-> minute_count <= limits.requests_per_minute,
         remaining |-> Max0(limits.requests_per_minute - minute_count),
         reset_time |-> t + 60]

\* the cache after the check, and the dict returned
_check_local_rate_limit(cache, t, user_id, limits, endpoint) ==
    LET key == <<user_id, endpoint>>
        Recent(timestamp) == t - timestamp < 60
        entries == Append(SelectSeq(cache[key], Recent), t)
        minute_count == Len(entries)
    IN  [cache |-> [cache EXCEPT ![key] = entries],
         allowed |-> minute_count <= limits.requests_per_minute,
         remaining |-> Max0(limits.requests_per_minute - minute_count),
         reset_time |-> t + 60]

\* The Redis server: a function from the keys present to [count, expire_at];
\* expire_at = NoExpiry for a key without a time to live.
RedisWindows == {"minute", "hour", "day"}

WindowSeconds == [minute |-> 60, hour |-> 3600, day |-> 86400]

NoExpiry == -1

NoKeys == [key \in {} |-> [count |-> 0, expire_at |-> NoExpiry]]

\* f"rate_limit:{user_id}:{endpoint}:{window}:{now // size}"
RedisKey(user_id, endpoint, window, t) ==
    [user_id |-> user_id, endpoint |-> endpoint, window |-> window,
     bucket |-> t \div WindowSeconds[window]]

RedisCount(store, key) == IF key \in DOMAIN store THEN store[key].count ELSE 0

\* INCR: an absent key is created at 1, without expiry
redis_incr(store, key) ==
    IF key \in DOMAIN store
    THEN [store EXCEPT ![key].count = @ + 1]
    ELSE (key :> [count |-> 1, expire_at |-> NoExpiry]) @@ store

\* EXPIRE key seconds, issued at time t
redis_expire(store, key, seconds, t) ==
    IF key \in DOMAIN store
    THEN [store EXCEPT ![key].expire_at = t + seconds]
    ELSE store

\* the server drops the keys whose time to live has run out
redis_purge(store, t) ==
    [key \in {k \in DOMAIN store :
                 store[k].expire_at = NoExpiry \/ store[k].expire_at > t} |-> store[key]]

\* The six Redis commands of one check, in the order the code issues them;
\* fault = k: the k-th of them raises (its command not carried out), 0: none.
Faults == 0..6

_check_redis_rate_limit_below_cap(store, t, user_id, limits, endpoint, fault) ==
    LET minute_key == RedisKey(user_id, endpoint, "minute", t)
        hour_key == RedisKey(user_id, endpoint, "hour", t)
        day_key == RedisKey(user_id, endpoint, "day", t)
        s1 == redis_incr(store, minute_key)
        s2 == redis_incr(s1, hour_key)
        s3 == redis_incr(s2, day_key)
        minute_count == RedisCount(s1, minute_key)
        hour_count == RedisCount(s2, hour_key)
        day_count == RedisCount(s3, day_key)
        s4 == IF minute_count = 1 THEN redis_expire(s3, minute_key, 60, t) ELSE s3
        s5 == IF hour_count = 1 THEN redis_expire(s4, hour_key, 3600, t) ELSE s4
        s6 == IF day_count = 1 THEN redis_expire(s5, day_key, 86400, t) ELSE s5
        raised == \/ fault \in 1..3
                  \/ fault = 4 /\ minute_count = 1
                  \/ fault = 5 /\ hour_count = 1
                  \/ fault = 6 /\ day_count = 1
        reached == CASE fault = 1 -> store [] fault = 2 -> s1 [] fault = 3 -> s2
                     [] fault = 4 -> s3 [] fault = 5 -> s4 [] fault = 6 -> s5
                     [] OTHER -> s6
    IN  [redis |-> IF raised THEN reached ELSE s6,
         raised |-> raised,
         allowed |-> /\ minute_count < limits.requests_per_minute
                     /\ hour_count <= limits.requests_per_hour
                     /\ day_count <= limits.requests_per_day,
         remaining |-> Max0(limits.requests_per_minute - minute_count),
         reset_time |-> ((t \div 60) + 1) * 60]

_check_redis_rate_limit_minute_only(store, t, user_id, limits, endpoint, fault) ==
    LET minute_key == RedisKey(user_id, endpoint, "minute", t)
        hour_key == RedisKey(user_id, endpoint, "hour", t)
        day_key == RedisKey(user_id, endpoint, "day", t)
        s1 == redis_incr(store, minute_key)
        s2 == redis_incr(s1, hour_key)
        s3 == redis_incr(s2, day_key)
        minute_count == RedisCount(s1, minute_key)
        hour_count == RedisCount(s2, hour_key)
        day_count == RedisCount(s3, day_key)
        s4 == IF minute_count = 1 THEN redis_expire(s3, minute_key, 60, t) ELSE s3
        s5 == IF hour_count = 1 THEN redis_expire(s4, hour_key, 3600, t) ELSE s4
        s6 == IF day_count = 1 THEN redis_expire(s5, day_key, 86400, t) ELSE s5
        raised == \/ fault \in 1..3
                  \/ fault = 4 /\ minute_count = 1
                  \/ fault = 5 /\ hour_count = 1
                  \/ fault = 6 /\ day_count = 1
        reached == CASE fault = 1 -> store [] fault = 2 -> s1 [] fault = 3 -> s2
                     [] fault = 4 -> s3 [] fault = 5 -> s4 [] fault = 6 -> s5
                     [] OTHER -> s6
    IN  [redis |-> IF raised THEN reached ELSE s6,
         raised |-> raised,
         allowed |-> /\ minute_count <= limits.requests_per_minute,
         remaining |-> Max0(limits.requests_per_minute - minute_count),
         reset_time |-> ((t \div 60) + 1) * 60]

\* the store after the check, the dict returned, or raised = TRUE
_check_redis_rate_limit(store, t, user_id, limits, endpoint, fault) ==
    LET minute_key == RedisKey(user_id, endpoint, "minute", t)
        hour_key == RedisKey(user_id, endpoint, "hour", t)
        day_key == RedisKey(user_id, endpoint, "day", t)
        s1 == redis_incr(store, minute_key)
        s2 == redis_incr(s1, hour_key)
        s3 == redis_incr(s2, day_key)
        minute_count == RedisCount(s1, minute_key)
        hour_count == RedisCount(s2, hour_key)
        day_count == RedisCount(s3, day_key)
        s4 == IF minute_count = 1 THEN redis_expire(s3, minute_key, 60, t) ELSE s3
        s5 == IF hour_count = 1 THEN redis_expire(s4, hour_key, 3600, t) ELSE s4
        s6 == IF day_count = 1 THEN redis_expire(s5, day_key, 86400, t) ELSE s5
        raised == \/ fault \in 1..3
                  \/ fault = 4 /\ minute_count = 1
                  \/ fault = 5 /\ hour_count = 1
                  \/ fault = 6 /\ day_count = 1
        reached == CASE fault = 1 -> store [] fault = 2 -> s1 [] fault = 3 -> s2
                     [] fault = 4 -> s3 [] fault = 5 -> s4 [] fault = 6 -> s5
                     [] OTHER -> s6
    IN  [redis |-> IF raised THEN reached ELSE s6,
         raised |-> raised,
         allowed |-> /\ minute_count <= limits.requests_per_minute
                     /\ hour_count <= limits.requests_per_hour
                     /\ day_count <= limits.requests_per_day,
         remaining |-> Max0(limits.requests_per_minute - minute_count),
         reset_time |-> ((t \div 60) + 1) * 60]

\* the dict returned, with the two stores afterwards; error: the except
\* branch was taken
RateLimitResult(store, cache, allowed, remaining, reset_time, error) ==
    [redis |-> store, cache |-> cache, allowed |-> allowed, remaining |-> remaining,
     reset_time |-> reset_time, error |-> error]

check_rate_limit_fail_closed(client, store, cache, t, user_id, plan, endpoint, fault) ==
    LET limits == IF plan \in DOMAIN plan_limits THEN plan_limits[plan]
                  ELSE plan_limits["free"]
        viaRedis == _check_redis_rate_limit(store, t, user_id, limits, endpoint, fault)
        viaLocal == _check_local_rate_limit(cache, t, user_id, limits, endpoint)
    IN  IF client /\ viaRedis.raised
        THEN RateLimitResult(viaRedis.redis, cache, FALSE, 0, t + 60, TRUE)
        ELSE IF client
        THEN RateLimitResult(viaRedis.redis, cache, viaRedis.allowed,
                             viaRedis.remaining, viaRedis.reset_time, FALSE)
        ELSE RateLimitResult(store, viaLocal.cache, viaLocal.allowed,
                             viaLocal.remaining, viaLocal.reset_time, FALSE)

check_rate_limit(client, store, cache, t, user_id, plan, endpoint, fault) ==
    LET limits == IF plan \in DOMAIN plan_limits THEN plan_limits[plan]
                  ELSE plan_limits["free"]
        viaRedis == _check_redis_rate_limit(store, t, user_id, limits, endpoint, fault)
        viaLocal == _check_local_rate_limit(cache, t, user_id, limits, endpoint)
    IN  IF client /\ viaRedis.raised
        THEN RateLimitResult(viaRedis.redis, cache, TRUE, 1000, t + 60, TRUE)
        ELSE IF client
        THEN RateLimitResult(viaRedis.redis, cache, viaRedis.allowed,
                             viaRedis.remaining, viaRedis.reset_time, FALSE)
        ELSE RateLimitResult(store, viaLocal.cache, viaLocal.allowed,
                             viaLocal.remaining, viaLocal.reset_time, FALSE)

\* A request: what it carries to identify itself (credential), the user the
\* API key or the bearer token belongs to, the path, and the plan of the
\* active subscription of the API key's company (None: no subscription).
Credentials == {"none", "api_key_valid", "api_key_invalid", "bearer_valid", "bearer_invalid"}

Requests ==
    [credential : {"api_key_valid"}, user : GatewayUsers, path : Paths,
     subscription : SubscriptionPlan \cup {None}]
    \cup [credential : Credentials \ {"api_key_valid"}, user : GatewayUsers, path : Paths,
          subscription : {None}]

NoRequest == [served |-> FALSE]

NoHeaders == [absent |-> TRUE]

RateLimitHeaders(plan, result) ==
    [limit |-> plan_limits[plan].requests_per_minute,
     remaining |-> result.remaining, reset |-> result.reset_time]

Response(request, store, cache, limiter_checked, allowed, handler_invoked, status, headers) ==
    [redis |-> store, cache |-> cache,
     gw |-> [served |-> TRUE, request |-> request, limiter_checked |-> limiter_checked,
             allowed |-> allowed, handler_invoked |-> handler_invoked,
             status |-> status, headers |-> headers]]

\* the middleware around call_next; the route handler answers 200
api_gateway_middleware(client, store, cache, t, request, fault) ==
    LET keyed == request.credential = "api_key_valid"
        user_id == IF keyed THEN request.user ELSE None
        plan == IF keyed
                THEN (IF request.subscription # None THEN request.subscription ELSE "basic")
                ELSE "free"
        limited == user_id # None /\ request.path # WebhookPath
        result == check_rate_limit(client, store, cache, t, user_id, plan,
                                   request.path, fault)
    IN  IF limited /\ ~result.allowed
        THEN Response(request, result.redis, result.cache, TRUE, FALSE, FALSE, 429,
                      RateLimitHeaders(plan, result))
        ELSE IF limited
        THEN Response(request, result.redis, result.cache, TRUE, TRUE, TRUE, 200,
                      RateLimitHeaders(plan, result))
        ELSE IF user_id # None
        THEN Response(request, store, cache, FALSE, TRUE, TRUE, 500, NoHeaders)
             \* rate_limit_result is unbound when the headers are added
        ELSE Response(request, store, cache, FALSE, TRUE, TRUE, 200, NoHeaders)

\* ------------------------------------------------------------------------
\* projects/service.py.  Each handler is a function of the two tables and
\* its arguments, giving the tables afterwards and the value returned
\* (ok: a truthy result; FALSE: None or False).
\* ------------------------------------------------------------------------
Outcome(projs, tms, ok) == [projects |-> projs, team_members |-> tms, ok |-> ok]

add_team_member(projs, tms, project_id, user_id, inviter_id, role) ==
    IF get_project_by_id(projs, project_id) = NoProject
    THEN Outcome(projs, tms, FALSE)
    ELSE IF get_team_member(tms, project_id, user_id) # NoMember
    THEN Outcome(projs, tms, TRUE)
    ELSE Outcome(increment_project_team_count(projs, project_id),
                 tms \cup {[project_id |-> project_id, user_id |-> user_id,
                            role |-> role, is_active |-> TRUE]},
                 TRUE)

\* create_project enrolling the creator one rank lower
create_project_creator_as_manager(projs, tms, project_id, status, user_id) ==
    LET inserted == [projs EXCEPT ![project_id] =
                        [status |-> status, team_member_count |-> 1]]
        added == add_team_member(inserted, tms, project_id, user_id, user_id, "manager")
    IN  Outcome(added.projects, added.team_members, TRUE)

create_project(projs, tms, project_id, status, user_id) ==
    LET inserted == [projs EXCEPT ![project_id] =
                        [status |-> status, team_member_count |-> 1]]
        added == add_team_member(inserted, tms, project_id, user_id, user_id, "owner")
    IN  Outcome(added.projects, added.team_members, TRUE)

\* update_project writing the update before the permission check is settled
update_project_writes_when_denied(projs, tms, project_id, status, user_id, user_role) ==
    LET project == get_project_by_id(projs, project_id)
    IN  IF project = NoProject THEN Outcome(projs, tms, FALSE)
        ELSE Outcome(IF status = None THEN projs
                     ELSE [projs EXCEPT ![project_id].status = status],
                     tms, TRUE)

\* status: the status field of the ProjectUpdate body, None when unset (the
\* other fields of the body are written the same way and read by no handler)
update_project(projs, tms, project_id, status, user_id, user_role) ==
    LET project == get_project_by_id(projs, project_id)
        team_member == get_team_member(tms, project_id, user_id)
    IN  IF project = NoProject THEN Outcome(projs, tms, FALSE)
        ELSE IF ~check_permission(user_id, user_role, project_id, team_member,
                                  "edit", project.status)
        THEN Outcome(projs, tms, FALSE)
        ELSE Outcome(IF status = None THEN projs
                     ELSE [projs EXCEPT ![project_id].status = status],
                     tms, TRUE)

delete_project(projs, tms, project_id, user_id, user_role) ==
    LET project == get_project_by_id(projs, project_id)
        team_member == get_team_member(tms, project_id, user_id)
    IN  IF project = NoProject THEN Outcome(projs, tms, FALSE)
        ELSE IF ~check_permission(user_id, user_role, project_id, team_member,
                                  "delete", project.status)
        THEN Outcome(projs, tms, FALSE)
        ELSE Outcome([projs EXCEPT ![project_id].status = "archived"], tms, TRUE)

remove_team_member(projs, tms, project_id, member_id, remover_id, user_role) ==
    LET member == get_team_member_by_id(tms, member_id)
        remover_member == get_team_member(tms, project_id, remover_id)
        owners == get_project_owners(tms, project_id)
        has_permission == check_permission(remover_id, user_role, project_id,
                                           remover_member, "manage_team", None)
    IN  IF member = NoMember \/ member.project_id # project_id
        THEN Outcome(projs, tms, FALSE)
        ELSE IF member.user_id = remover_id /\ Cardinality(owners) <= 1
                /\ member.role = "owner"
        THEN Outcome(projs, tms, FALSE)
        ELSE IF ~has_permission /\ remover_member = NoMember
        THEN Outcome(projs, tms, FALSE)   \* None.get raises; the handler returns False
        ELSE IF ~has_permission /\ ~can_invite_members(remover_member.role, member.role)
        THEN Outcome(projs, tms, FALSE)
        ELSE Outcome(decrement_project_team_count(projs, project_id),
                     delete_team_member(tms, member_id), TRUE)

\* ------------------------------------------------------------------------
\* projects/service.py: documents and tasks.  A document or task row keeps
\* its id, its project and its author; the project columns document_count
\* and task_count are kept in counters.  A call is followed from one awaited
\* database call to the next: pc names the database call it is about to
\* make (get_team_member, the insert, the read and the write of the
\* increment).
\* ------------------------------------------------------------------------
ContentOps == {"add_document", "create_task"}

CountColumn(op) == IF op = "add_document" THEN "document_count" ELSE "task_count"

ContentAction(op) == IF op = "add_document" THEN "manage_documents" ELSE "manage_tasks"

\* current_count before the increment has read the project row
NotRead == -1

ContentCall(op, project_id, user_id, user_role) ==
    [pc |-> "check", op |-> op, project_id |-> project_id, user_id |-> user_id,
     user_role |-> user_role, current_count |-> NotRead, ok |-> FALSE]

ContentState(docs, tks, counts, call) ==
    [documents |-> docs, tasks |-> tks, counters |-> counts, call |-> call]

create_document(docs, document_id, project_id, user_id) ==
    docs \cup {[id |-> document_id, project_id |-> project_id, uploaded_by |-> user_id]}

create_task_row(tks, task_id, project_id, user_id) ==
    tks \cup {[id |-> task_id, project_id |-> project_id, created_by |-> user_id]}

\* the increment writing one more than the count it finds at the write
write_count_atomic(counts, project_id, column, current_count) ==
    [counts EXCEPT ![project_id][column] = @ + 1]

\* the update of increment_project_document_count / increment_project_task_count
write_count(counts, project_id, column, current_count) ==
    [counts EXCEPT ![project_id][column] = current_count + 1]

\* new_id: the uuid4 of the row; db_ok: the insert returned the row
content_step(projs, tms, docs, tks, counts, call, new_id, db_ok) ==
    LET finished(ok) == [pc |-> "done", op |-> call.op, project_id |-> call.project_id,
                         current_count |-> call.current_count, ok |-> ok,
                         denied |-> call.pc = "check"]
    IN  CASE call.pc = "check" ->
               LET team_member == get_team_member(tms, call.project_id, call.user_id)
                   has_permission ==
                       check_permission(call.user_id, call.user_role, call.project_id,
                                        team_member, ContentAction(call.op), None)
               IN  IF ~has_permission
                   THEN ContentState(docs, tks, counts, finished(FALSE))
                   ELSE ContentState(docs, tks, counts, [call EXCEPT !.pc = "insert"])
          [] call.pc = "insert" ->
               IF ~db_ok THEN ContentState(docs, tks, counts, finished(FALSE))
               ELSE IF call.op = "add_document"
               THEN ContentState(create_document(docs, new_id, call.project_id, call.user_id),
                                 tks, counts, [call EXCEPT !.pc = "read"])
               ELSE ContentState(docs,
                                 create_task_row(tks, new_id, call.project_id, call.user_id),
                                 counts, [call EXCEPT !.pc = "read"])
          [] call.pc = "read" ->
               IF get_project_by_id(projs, call.project_id) = NoProject
               THEN ContentState(docs, tks, counts, finished(TRUE))
               ELSE ContentState(docs, tks, counts,
                        [call EXCEPT !.pc = "write",
                                     !.current_count =
                                         counts[call.project_id][CountColumn(call.op)]])
          [] call.pc = "write" ->
               ContentState(docs, tks,
                            write_count(counts, call.project_id, CountColumn(call.op),
                                        call.current_count),
                            finished(TRUE))
          [] OTHER -> ContentState(docs, tks, counts, call)

\* the next awaited call of a call that has not returned
content_resume(projs, tms, state, new_id, db_ok) ==
    IF state.call.pc = "done" THEN state
    ELSE content_step(projs, tms, state.documents, state.tasks, state.counters,
                      state.call, new_id, db_ok)

\* a call run from start to end with no other call in between
content_call(projs, tms, docs, tks, counts, call, new_id, db_ok) ==
    LET s1 == content_step(projs, tms, docs, tks, counts, call, new_id, db_ok)
        s2 == content_resume(projs, tms, s1, new_id, db_ok)
        s3 == content_resume(projs, tms, s2, new_id, db_ok)
    IN  content_resume(projs, tms, s3, new_id, db_ok)

add_document(projs, tms, docs, tks, counts, project_id, user_id, user_role, new_id, db_ok) ==
    content_call(projs, tms, docs, tks, counts,
                 ContentCall("add_document", project_id, user_id, user_role), new_id, db_ok)

create_task(projs, tms, docs, tks, counts, project_id, user_id, user_role, new_id, db_ok) ==
    content_call(projs, tms, docs, tks, counts,
                 ContentCall("create_task", project_id, user_id, user_role), new_id, db_ok)

\* remove_team_member followed from one awaited database call to the next:
\* pc names the database call it is about to make (get_team_member_by_id,
\* get_team_member, get_project_owners, delete_team_member, and the read and
\* the write of decrement_project_team_count).
RemoveCall(project_id, member_id, remover_id, user_role) ==
    [pc |-> "member", project_id |-> project_id, member_id |-> member_id,
     remover_id |-> remover_id, user_role |-> user_role, member |-> NoMember,
     remover_member |-> NoMember, current_count |-> NotRead]

RemoveState(projs, tms, call) == [projects |-> projs, team_members |-> tms, call |-> call]

\* success: delete_team_member returned True
remove_step(projs, tms, call, success) ==
    LET finished(ok) == [pc |-> "done", project_id |-> call.project_id,
                         remover_id |-> call.remover_id, ok |-> ok]
        \* the permission check that follows the reads, with no database call
        permitted(remover_member) ==
            LET has_permission == check_permission(call.remover_id, call.user_role,
                                                   call.project_id, remover_member,
                                                   "manage_team", None)
            IN  IF has_permission THEN TRUE
                ELSE IF remover_member = NoMember THEN FALSE
                ELSE can_invite_members(remover_member.role, call.member.role)
    IN  CASE call.pc = "member" ->
               LET member == get_team_member_by_id(tms, call.member_id)
               IN  IF member = NoMember THEN RemoveState(projs, tms, finished(FALSE))
                   ELSE IF member.project_id # call.project_id
                   THEN RemoveState(projs, tms, finished(FALSE))
                   ELSE RemoveState(projs, tms,
                                    [call EXCEPT !.pc = "remover", !.member = member])
          [] call.pc = "remover" ->
               LET remover_member == get_team_member(tms, call.project_id, call.remover_id)
               IN  IF call.member.user_id = call.remover_id
                   THEN RemoveState(projs, tms,
                            [call EXCEPT !.pc = "owners", !.remover_member = remover_member])
                   ELSE IF ~permitted(remover_member)
                   THEN RemoveState(projs, tms, finished(FALSE))
                   ELSE RemoveState(projs, tms,
                            [call EXCEPT !.pc = "delete", !.remover_member = remover_member])
          [] call.pc = "owners" ->
               LET owners == get_project_owners(tms, call.project_id)
               IN  IF Cardinality(owners) <= 1 /\ call.member.role = "owner"
                   THEN RemoveState(projs, tms, finished(FALSE))
                   ELSE IF ~permitted(call.remover_member)
                   THEN RemoveState(projs, tms, finished(FALSE))
                   ELSE RemoveState(projs, tms, [call EXCEPT !.pc = "delete"])
          [] call.pc = "delete" ->
               IF ~success THEN RemoveState(projs, tms, finished(FALSE))
               ELSE RemoveState(projs, delete_team_member(tms, call.member_id),
                                [call EXCEPT !.pc = "read"])
          [] call.pc = "read" ->
               IF get_project_by_id(projs, call.project_id) = NoProject
               THEN RemoveState(projs, tms, finished(TRUE))
               ELSE RemoveState(projs, tms,
                        [call EXCEPT !.pc = "write",
                                     !.current_count =
                                         projs[call.project_id].team_member_count])
          [] call.pc = "write" ->
               RemoveState([projs EXCEPT ![call.project_id].team_member_count =
                                IF call.current_count - 1 > 0
                                THEN call.current_count - 1 ELSE 0],
                           tms, finished(TRUE))
          [] OTHER -> RemoveState(projs, tms, call)

\* ------------------------------------------------------------------------
\* auth/security.py.  Time is in whole days.  A password hash is modelled by
\* the password it was made from; a signed token by its claims.
\* ------------------------------------------------------------------------
REFRESH_TOKEN_EXPIRE_DAYS == 30

\* ACCESS_TOKEN_EXPIRE_MINUTES = 60 * 24 * 7
ACCESS_TOKEN_EXPIRE_DAYS == 7

get_password_hash(password) == [bcrypt |-> password]

verify_password(plain_password, hashed_password) ==
    hashed_password = get_password_hash(plain_password)

NoToken == [absent |-> TRUE]

\* a string that is not a token signed with SECRET_KEY
ForgedToken == [forged |-> TRUE]

create_access_token(data, t) ==
    [sub |-> data.sub, email |-> data.email, role |-> data.role,
     company_id |-> data.company_id, exp |-> t + ACCESS_TOKEN_EXPIRE_DAYS,
     type |-> "access"]

create_refresh_token(data, t) ==
    [sub |-> data.sub, email |-> data.email, role |-> data.role,
     company_id |-> data.company_id, exp |-> t + REFRESH_TOKEN_EXPIRE_DAYS,
     type |-> "refresh"]

NoPayload == [absent |-> TRUE]

\* jwt.decode raises JWTError for a bad signature and for exp < now
verify_token(token, t) ==
    IF token = ForgedToken THEN NoPayload
    ELSE IF token.exp < t THEN NoPayload
    ELSE IF token.role \notin UserRole THEN NoPayload
    ELSE [sub |-> token.sub, email |-> token.email, role |-> token.role,
          company_id |-> token.company_id, exp |-> token.exp]

\* ------------------------------------------------------------------------
\* auth/security.py and auth/dependencies.py: the role checkers.  A raised
\* HTTPException is modelled by its status code and detail, a return by
\* status 200 and the user returned.
\* ------------------------------------------------------------------------
Raised(status_code, detail) ==
    [status_code |-> status_code, detail |-> detail, user |-> NoPayload]

Returned(current_user) == [status_code |-> 200, detail |-> None, user |-> current_user]

\* the helper get_current_user of auth/security.py
get_current_user(token, t) ==
    IF token = NoToken THEN NoPayload ELSE verify_token(token, t)

\* role_hierarchy of role_checker
user_role_hierarchy ==
    [r \in UserRole |->
        CASE r = "admin" -> 4 [] r = "company_admin" -> 3 [] r = "project_manager" -> 2
          [] r = "estimator" -> 1 [] r = "viewer" -> 0]

\* the role checker refusing an actor whose rank equals the rank required
require_role_above(required_role, current_user) ==
    IF current_user = NoPayload THEN Raised(401, "Not authenticated")
    ELSE IF current_user.role = "admin" THEN Returned(current_user)
    ELSE IF user_role_hierarchy[current_user.role] <= user_role_hierarchy[required_role]
    THEN Raised(403, "Insufficient permissions")
    ELSE Returned(current_user)

\* require_role(required_role)(current_user)
require_role(required_role, current_user) ==
    IF current_user = NoPayload THEN Raised(401, "Not authenticated")
    ELSE IF current_user.role = "admin" THEN Returned(current_user)
    ELSE IF user_role_hierarchy[current_user.role] < user_role_hierarchy[required_role]
    THEN Raised(403, "Insufficient permissions")
    ELSE Returned(current_user)

\* AuthDependencies.get_current_user
dependency_get_current_user(token, t) ==
    IF token = NoToken THEN Raised(401, "Not authenticated")
    ELSE LET user == get_current_user(token, t)
         IN  IF user = NoPayload THEN Raised(401, "Could not validate credentials")
             ELSE Returned(user)

\* AuthDependencies.get_current_active_user hands on what it is given
get_current_active_user(current_user) == current_user

\* the roles AuthDependencies has a dependency for: require_admin,
\* require_company_admin, require_project_manager, require_estimator
DependencyRoles == {"admin", "company_admin", "project_manager", "estimator"}

require_dependency(required_role, token, t) ==
    LET found == dependency_get_current_user(token, t)
    IN  IF found.status_code # 200 THEN found
        ELSE require_role(required_role, get_current_active_user(found.user))

\* ------------------------------------------------------------------------
\* core/database.py: users, companies, sessions
\* ------------------------------------------------------------------------
NoUser == [absent |-> TRUE]

NoSession == [absent |-> TRUE]

create_user(userTable, user_data) == userTable \cup {user_data}

\* result.data[0]: one of the rows with the email
get_user_by_email(userTable, email) ==
    IF \E u \in userTable : u.email = email
    THEN CHOOSE u \in userTable : u.email = email
    ELSE NoUser

get_user_by_id(userTable, user_id) ==
    IF \E u \in userTable : u.id = user_id
    THEN CHOOSE u \in userTable : u.id = user_id
    ELSE NoUser

update_user(userTable, user_id, status) ==
    {IF u.id = user_id THEN [u EXCEPT !.status = status] ELSE u : u \in userTable}

create_company(companyTable, company_data) == companyTable \cup {company_data}

update_company(companyTable, company_id, owner_id) ==
    {IF c.id = company_id THEN [c EXCEPT !.owner_id = owner_id] ELSE c : c \in companyTable}

create_session(sessionTable, session_data) == sessionTable \cup {session_data}

get_session(sessionTable, session_token) ==
    IF \E row \in sessionTable : row.token = session_token
    THEN CHOOSE row \in sessionTable : row.token = session_token
    ELSE NoSession

delete_session(sessionTable, session_token) ==
    {row \in sessionTable : row.token # session_token}

delete_user_sessions_of_everyone(sessionTable, user_id) ==
    {row \in sessionTable : FALSE}

delete_user_sessions(sessionTable, user_id) ==
    {row \in sessionTable : row.user_id # user_id}

\* ------------------------------------------------------------------------
\* auth/auth_service.py
\* ------------------------------------------------------------------------
Emails == {"a@bouw.nl", "b@bouw.nl"}

Passwords == {"pw1", "pw2"}

CompanyNames == {None, "Sterk BV"}

\* uuid4: an id no row of the table has
NewId(pool, used) == CHOOSE id \in pool : id \notin used

\* The local variables of one register call; pc names the database call it
\* is awaiting: get_user_by_email, create_company, create_user, update_company.
RegisterCall(user_data) ==
    [pc |-> "check", email |-> user_data.email, password |-> user_data.password,
     company_name |-> user_data.company_name, company_id |-> None, user_id |-> None,
     error |-> None]

RegisterState(userTable, companyTable, call) ==
    [users |-> userTable, companies |-> companyTable, call |-> call]

\* register from the database call it is awaiting to the next one; fails: the
\* awaited write raises (the database service then returns None)
register_step(userTable, companyTable, call, fails) ==
    LET Return(error) == [call EXCEPT !.pc = "done", !.error = error]
        company_id == NewId(Companies, {c.id : c \in companyTable})
        user_id == NewId(Users, {u.id : u \in userTable})
        user == [id |-> user_id, email |-> call.email,
                 hashed_password |-> get_password_hash(call.password),
                 role |-> "viewer",
                 status |-> IF call.company_id # None THEN "pending" ELSE "active",
                 company_id |-> call.company_id]
    IN  CASE call.pc = "check" ->
               IF get_user_by_email(userTable, call.email) # NoUser
               THEN RegisterState(userTable, companyTable,
                                  Return("User with this email already exists"))
               ELSE RegisterState(userTable, companyTable,
                        [call EXCEPT !.pc = IF call.company_name # None
                                            THEN "company" ELSE "user"])
          [] call.pc = "company" ->
               IF fails
               THEN RegisterState(userTable, companyTable, Return("Failed to create company"))
               ELSE RegisterState(userTable,
                        create_company(companyTable, [id |-> company_id, owner_id |-> None]),
                        [call EXCEPT !.pc = "user", !.company_id = company_id])
          [] call.pc = "user" ->
               IF fails
               THEN RegisterState(userTable, companyTable, Return("Failed to create user"))
               ELSE RegisterState(create_user(userTable, user), companyTable,
                        [call EXCEPT !.pc = IF call.company_id # None THEN "owner" ELSE "done",
                                     !.user_id = user_id])
          [] call.pc = "owner" ->
               RegisterState(userTable,
                   IF fails THEN companyTable
                   ELSE update_company(companyTable, call.company_id, call.user_id),
                   Return(None))
          [] OTHER -> RegisterState(userTable, companyTable, call)

RegisterFaults == {"none", "company", "user", "owner"}

\* register run from start to end with no other call in between; fault names
\* the write that raises
register(userTable, companyTable, user_data, fault) ==
    LET s1 == register_step(userTable, companyTable, RegisterCall(user_data), FALSE)
        s2 == register_step(s1.users, s1.companies, s1.call, s1.call.pc = fault)
        s3 == register_step(s2.users, s2.companies, s2.call, s2.call.pc = fault)
        s4 == register_step(s3.users, s3.companies, s3.call, s3.call.pc = fault)
    IN  s4

TokenResult(sessionTable, access_token, refresh_token, error) ==
    [sessions |-> sessionTable, access_token |-> access_token,
     refresh_token |-> refresh_token, error |-> error]

login_names_unknown_email(userTable, sessionTable, email, password, remember_me, t) ==
    LET user == get_user_by_email(userTable, email)
        Fail(error) == TokenResult(sessionTable, NoToken, NoToken, error)
        token_data == [sub |-> user.id, email |-> user.email, role |-> user.role,
                       company_id |-> user.company_id]
        refresh_token == create_refresh_token(token_data, t)
        expires_days == IF remember_me THEN REFRESH_TOKEN_EXPIRE_DAYS ELSE 1
    IN  IF user = NoUser THEN Fail("User not found")
        ELSE IF ~verify_password(password, user.hashed_password)
        THEN Fail("Invalid credentials")
        ELSE IF user.status = "inactive" THEN Fail("Account is inactive")
        ELSE IF user.status = "suspended" THEN Fail("Account is suspended")
        ELSE IF user.status = "pending" THEN Fail("Account pending verification")
        ELSE TokenResult(create_session(sessionTable,
                             [token |-> refresh_token, user_id |-> user.id,
                              expires_at |-> t + expires_days]),
                         create_access_token(token_data, t), refresh_token, None)

login_lets_suspended_in(userTable, sessionTable, email, password, remember_me, t) ==
    LET user == get_user_by_email(userTable, email)
        Fail(error) == TokenResult(sessionTable, NoToken, NoToken, error)
        token_data == [sub |-> user.id, email |-> user.email, role |-> user.role,
                       company_id |-> user.company_id]
        refresh_token == create_refresh_token(token_data, t)
        expires_days == IF remember_me THEN REFRESH_TOKEN_EXPIRE_DAYS ELSE 1
    IN  IF user = NoUser THEN Fail("Invalid credentials")
        ELSE IF ~verify_password(password, user.hashed_password)
        THEN Fail("Invalid credentials")
        ELSE IF user.status = "inactive" THEN Fail("Account is inactive")
        ELSE IF user.status = "pending" THEN Fail("Account pending verification")
        ELSE TokenResult(create_session(sessionTable,
                             [token |-> refresh_token, user_id |-> user.id,
                              expires_at |-> t + expires_days]),
                         create_access_token(token_data, t), refresh_token, None)

\* the session row keeps the token, the user and the expiry; the writes of
\* login succeed
login(userTable, sessionTable, email, password, remember_me, t) ==
    LET user == get_user_by_email(userTable, email)
        Fail(error) == TokenResult(sessionTable, NoToken, NoToken, error)
        token_data == [sub |-> user.id, email |-> user.email, role |-> user.role,
                       company_id |-> user.company_id]
        refresh_token == create_refresh_token(token_data, t)
        expires_days == IF remember_me THEN REFRESH_TOKEN_EXPIRE_DAYS ELSE 1
    IN  IF user = NoUser THEN Fail("Invalid credentials")
        ELSE IF ~verify_password(password, user.hashed_password)
        THEN Fail("Invalid credentials")
        ELSE IF user.status = "inactive" THEN Fail("Account is inactive")
        ELSE IF user.status = "suspended" THEN Fail("Account is suspended")
        ELSE IF user.status = "pending" THEN Fail("Account pending verification")
        ELSE TokenResult(create_session(sessionTable,
                             [token |-> refresh_token, user_id |-> user.id,
                              expires_at |-> t + expires_days]),
                         create_access_token(token_data, t), refresh_token, None)

refresh_token(userTable, sessionTable, token, t) ==
    LET payload == verify_token(token, t)
        session == get_session(sessionTable, token)
        user == get_user_by_id(userTable, payload.sub)
        Fail(error) == TokenResult(sessionTable, NoToken, NoToken, error)
        token_data == [sub |-> user.id, email |-> user.email, role |-> user.role,
                       company_id |-> user.company_id]
    IN  IF payload = NoPayload THEN Fail("Invalid refresh token")
        ELSE IF session = NoSession THEN Fail("Invalid refresh token")
        ELSE IF session.expires_at < t
        THEN TokenResult(delete_session(sessionTable, token), NoToken, NoToken,
                         "Refresh token expired")
        ELSE IF user = NoUser THEN Fail("User not found")
        ELSE TokenResult(sessionTable, create_access_token(token_data, t), token, None)

\* the verification token register generates for an email; register stores
\* it nowhere
VerificationToken(email) == [verification |-> email]

\* verify_email reads and writes no table and returns (True, None)
verify_email(userTable, token) == [users |-> userTable, ok |-> TRUE, error |-> None]

logout(sessionTable, token) == delete_session(sessionTable, token)

logout_all(sessionTable, user_id) == delete_user_sessions(sessionTable, user_id)

\* ------------------------------------------------------------------------
\* Billing service (billing/service.py).  DatabaseService as given has no
\* subscription methods; the ones the billing service calls are written as
\* the persistence collaborator's insert / select by id / update by id.
\* ------------------------------------------------------------------------
SubscriptionStatus ==
    {"active", "past_due", "canceled", "trialing", "incomplete", "incomplete_expired"}

plan_pricing ==
    [free         |-> [monthly_price |-> 0,   yearly_price |-> 0],
     basic        |-> [monthly_price |-> 49,  yearly_price |-> 490],
     professional |-> [monthly_price |-> 149, yearly_price |-> 1490],
     enterprise   |-> [monthly_price |-> 499, yearly_price |-> 4990]]

Intervals == {"month", "year"}

NoSubscription == [absent |-> TRUE]

db_create_subscription(subscriptionTable, subscription_data) ==
    subscriptionTable \cup {subscription_data}

get_subscription_by_id(subscriptionTable, subscription_id) ==
    IF \E row \in subscriptionTable : row.id = subscription_id
    THEN CHOOSE row \in subscriptionTable : row.id = subscription_id
    ELSE NoSubscription

\* update_data is a function from the columns to write to their new values
update_subscription(subscriptionTable, subscription_id, update_data) ==
    {IF row.id = subscription_id
     THEN [column \in DOMAIN row |->
             IF column \in DOMAIN update_data THEN update_data[column] ELSE row[column]]
     ELSE row : row \in subscriptionTable}

update_company_plan(planTable, company_id, update_data) ==
    [planTable EXCEPT ![company_id] =
        [column \in DOMAIN @ |->
            IF column \in DOMAIN update_data THEN update_data[column] ELSE @[column]]]

get_subscription(subscriptionTable, subscription_id) ==
    get_subscription_by_id(subscriptionTable, subscription_id)

BillingState(subscriptionTable, planTable, result) ==
    [subscriptions |-> subscriptionTable, company_plan |-> planTable, result |-> result]

\* stripe_ok: the key is set and the Stripe calls went through; db_ok: the
\* insert returned the row
create_subscription(subscriptionTable, planTable, subscription_id, company_id, plan_type, created_by, interval, t, stripe_ok, db_ok) ==
    LET plan == plan_pricing[plan_type]
        amount == IF interval = "year" THEN plan.yearly_price ELSE plan.monthly_price
        period_end == IF interval = "year" THEN t + 365 ELSE t + 30
        subscription_data ==
            [id |-> subscription_id, company_id |-> company_id, created_by |-> created_by,
             plan_type |-> plan_type, status |-> "active",
             current_period_end |-> period_end, amount |-> amount, interval |-> interval,
             canceled_at |-> None,
             stripe_subscription_id |-> IF stripe_ok THEN subscription_id ELSE None]
    IN  IF ~db_ok THEN BillingState(subscriptionTable, planTable, NoSubscription)
        ELSE BillingState(
                db_create_subscription(subscriptionTable, subscription_data),
                update_company_plan(planTable, company_id,
                    [plan_type |-> plan_type, subscription_status |-> "active",
                     subscription_id |-> subscription_id]),
                subscription_data)

cancel_subscription(subscriptionTable, planTable, subscription_id, company_id, user_id, user_role, db_ok) ==
    LET subscription == get_subscription(subscriptionTable, subscription_id)
    IN  IF user_role \notin {"admin", "company_admin"}
        THEN BillingState(subscriptionTable, planTable, FALSE)
        ELSE IF subscription = NoSubscription
        THEN BillingState(subscriptionTable, planTable, FALSE)
        ELSE IF subscription.company_id # company_id
        THEN BillingState(subscriptionTable, planTable, FALSE)
        ELSE IF ~db_ok THEN BillingState(subscriptionTable, planTable, FALSE)
        ELSE BillingState(
                update_subscription(subscriptionTable, subscription_id,
                    [status |-> "canceled", canceled_at |-> "now"]),
                update_company_plan(planTable, company_id,
                    [subscription_status |-> "canceled"]),
                TRUE)

update_subscription_plan(subscriptionTable, planTable, subscription_id, new_plan, company_id, user_id, user_role, db_ok) ==
    LET subscription == get_subscription(subscriptionTable, subscription_id)
        new_plan_pricing == plan_pricing[new_plan]
    IN  IF user_role \notin {"admin", "company_admin"}
        THEN BillingState(subscriptionTable, planTable, FALSE)
        ELSE IF subscription = NoSubscription
        THEN BillingState(subscriptionTable, planTable, FALSE)
        ELSE IF subscription.company_id # company_id
        THEN BillingState(subscriptionTable, planTable, FALSE)
        ELSE IF ~db_ok THEN BillingState(subscriptionTable, planTable, FALSE)
        ELSE LET amount == IF subscription.interval = "year"
                           THEN new_plan_pricing.yearly_price
                           ELSE new_plan_pricing.monthly_price
             IN  BillingState(
                    update_subscription(subscriptionTable, subscription_id,
                        [plan_type |-> new_plan, amount |-> amount]),
                    update_company_plan(planTable, company_id, [plan_type |-> new_plan]),
                    TRUE)

\* ------------------------------------------------------------------------
\* Specification Spec: the project service, one action per handler, calls
\* not interleaved.  last records the call and its result.
\* ------------------------------------------------------------------------
Call(op, user_id, ok) == [op |-> op, user_id |-> user_id, ok |-> ok]

Apply(out, call) ==
    /\ projects' = out.projects
    /\ team_members' = out.team_members
    /\ last' = call
    /\ UNCHANGED <<perm, now, local_cache, gw, limiterVars, authVars, moreVars>>

NoPerm == [called |-> FALSE]

NoCheck == [called |-> FALSE]

\* the rate limiter as constructed: no Redis client, nothing counted
LimiterIdle ==
    /\ redis_client = FALSE
    /\ redis = NoKeys
    /\ rl = NoCheck
    /\ history = EmptyBag

\* the register calls that may run at the same time
RegisterCalls == {"r1", "r2"}

NoAuth == [op |-> "none"]

Idle == [pc |-> "idle"]

\* the identity service over empty tables, no call made
AuthIdle ==
    /\ users = {}
    /\ companies = {}
    /\ sessions = {}
    /\ reg = [call \in RegisterCalls |-> Idle]
    /\ auth = NoAuth
    /\ today = 0

\* a company row before the billing service has written to it
NoPlan == [plan_type |-> None, subscription_status |-> None, subscription_id |-> None]

NoBill == [op |-> "none"]

ZeroCounts == [document_count |-> 0, task_count |-> 0]

\* the project service calls that may run at the same time
ServiceCalls == {"k1", "k2"}

NoRoleCheck == [called |-> FALSE]

\* the billing service, the document and task tables and the role checkers
\* before any call
MoreIdle ==
    /\ subscriptions = {}
    /\ company_plan = [c \in Companies |-> NoPlan]
    /\ bill = NoBill
    /\ documents = {}
    /\ tasks = {}
    /\ counters = [p \in ProjectIds |-> ZeroCounts]
    /\ inflight = [k \in ServiceCalls |-> Idle]
    /\ rc = NoRoleCheck

Init ==
    /\ perm = NoPerm
    /\ projects = [p \in ProjectIds |-> NoProject]
    /\ team_members = {}
    /\ last = NoCall
    /\ now = 0
    /\ local_cache = [k \in CacheKeys |-> <<>>]
    /\ gw = NoRequest
    /\ LimiterIdle
    /\ AuthIdle
    /\ MoreIdle

\* uuid4 gives a project id no row has yet
CreateProject ==
    \E project_id \in NewProjectIds, user_id \in Users, status \in ProjectStatus :
        /\ projects[project_id] = NoProject
        /\ LET out == create_project(projects, team_members, project_id, status, user_id)
           IN  Apply(out, Call("create_project", user_id, out.ok))

UpdateProject ==
    \E project_id \in ProjectIds, user_id \in Users, user_role \in UserRole,
       status \in ProjectStatus \cup {None} :
        LET out == update_project(projects, team_members, project_id, status,
                                  user_id, user_role)
        IN  Apply(out, Call("update_project", user_id, out.ok))

DeleteProject ==
    \E project_id \in ProjectIds, user_id \in Users, user_role \in UserRole :
        LET out == delete_project(projects, team_members, project_id, user_id, user_role)
        IN  Apply(out, Call("delete_project", user_id, out.ok))

\* the route passes the caller (current_user.sub) as inviter_id
AddTeamMember ==
    \E project_id \in ProjectIds, user_id \in Users, inviter_id \in Users,
       role \in TeamRole :
        LET out == add_team_member(projects, team_members, project_id, user_id,
                                   inviter_id, role)
        IN  Apply(out, Call("add_team_member", inviter_id, out.ok))

RemoveTeamMember ==
    \E project_id \in ProjectIds, member_id \in MemberIds, remover_id \in Users,
       user_role \in UserRole :
        LET out == remove_team_member(projects, team_members, project_id, member_id,
                                      remover_id, user_role)
        IN  Apply(out, Call("remove_team_member", remover_id, out.ok))

Next ==
    \/ CreateProject
    \/ UpdateProject
    \/ DeleteProject
    \/ AddTeamMember
    \/ RemoveTeamMember

Spec == Init /\ [][Next]_vars

\* ------------------------------------------------------------------------
\* Specification SpecGateway: requests through the middleware, and the clock.
\* ------------------------------------------------------------------------
GatewayInit == Init

\* redis_client is None here: no Redis command is issued, so none can fail
HandleRequest ==
    \E request \in Requests :
        /\ Len(local_cache[<<request.user, request.path>>]) < MaxRequests
        /\ LET out == api_gateway_middleware(redis_client, redis, local_cache, now,
                                              request, 0)
           IN  /\ local_cache' = out.cache
               /\ redis' = out.redis
               /\ gw' = out.gw
        /\ UNCHANGED <<perm, projects, team_members, last, now, redis_client, rl, history,
                       authVars, moreVars>>

AdvanceTime ==
    /\ now + TimeStep <= MaxTime
    /\ now' = now + TimeStep
    /\ UNCHANGED <<perm, projects, team_members, last, local_cache, gw, limiterVars,
                   authVars, moreVars>>

GatewayNext == HandleRequest \/ AdvanceTime

SpecGateway == GatewayInit /\ [][GatewayNext]_vars

\* ------------------------------------------------------------------------
\* Specification SpecLimiter: check_rate_limit called for one (actor,
\* endpoint) while the clock runs from LimiterStart, the last minute of an
\* hour, in steps of LimiterStep.  initialize() has either connected to
\* Redis or left redis_client None.  The Redis server is shared with the
\* other processes and outlives them: the hour and the day bucket of the key
\* may already hold a count (the minute bucket begins at LimiterStart).  The
\* limiter is followed up to its first check that meets a failing Redis
\* command.
\* ------------------------------------------------------------------------
LimiterStart == 7140

LimiterStep == 60

\* the plans the checks are made with: the lowest and the highest caps
LimiterPlans == {"free", "enterprise"}

LimiterUser == "u1"

LimiterEndpoint == "/projects"

LimiterKey == <<LimiterUser, LimiterEndpoint>>

\* counts already in the hour and the day bucket (the day holds the hour's
\* requests): none, or two below a cap of the free plan
PriorCounts ==
    LET hour_cap == plan_limits["free"].requests_per_hour
        day_cap == plan_limits["free"].requests_per_day
    IN  {<<0, 0>>, <<hour_cap - 2, hour_cap - 2>>, <<0, day_cap - 2>>}

\* a bucket's key was created, and given its time to live, when the bucket began
PriorKey(window, count) ==
    LET key == RedisKey(LimiterUser, LimiterEndpoint, window, LimiterStart)
    IN  IF count = 0 THEN NoKeys
        ELSE key :> [count |-> count,
                     expire_at |-> (key.bucket + 1) * WindowSeconds[window]]

LimiterInit ==
    /\ perm = NoPerm
    /\ projects = [p \in ProjectIds |-> NoProject]
    /\ team_members = {}
    /\ last = NoCall
    /\ now = LimiterStart
    /\ local_cache = [k \in CacheKeys |-> <<>>]
    /\ gw = NoRequest
    /\ redis_client \in BOOLEAN
    /\ \E prior \in PriorCounts :
          /\ redis_client \/ prior = <<0, 0>>
          /\ redis = PriorKey("hour", prior[1]) @@ PriorKey("day", prior[2])
    /\ rl = NoCheck
    /\ history = EmptyBag
    /\ AuthIdle
    /\ MoreIdle

\* some check so far met a failing Redis command
Failed == rl.called /\ rl.failed

\* the calls of the bag made less than 60 seconds before t
Within60(calls, t) == [call \in {c \in DOMAIN calls : t - c < 60} |-> calls[call]]

CheckRateLimit ==
    \E plan \in LimiterPlans, fault \in Faults :
        /\ Len(local_cache[LimiterKey]) < MaxRequests
        /\ RedisCount(redis, RedisKey(LimiterUser, LimiterEndpoint, "minute", now))
              < MaxRequests
        /\ ~Failed
        /\ fault # 0 => redis_client
        /\ LET out == check_rate_limit(redis_client, redis, local_cache, now,
                                        LimiterUser, plan, LimiterEndpoint, fault)
           IN  /\ redis' = out.redis
               /\ local_cache' = out.cache
               /\ rl' = [called |-> TRUE, allowed |-> out.allowed, error |-> out.error,
                          failed |-> Failed \/ out.error,
                          denied_before |-> rl.called /\ (rl.denied_before \/ ~rl.allowed)]
               /\ history' = history (+) SetToBag({now})
        /\ UNCHANGED <<perm, projects, team_members, last, now, gw, redis_client, authVars, moreVars>>

\* the clock moves on; the Redis server drops the keys that have run out
Tick ==
    /\ now + LimiterStep <= LimiterStart + MaxTime
    /\ now' = now + LimiterStep
    /\ redis' = redis_purge(redis, now')
    /\ history' = Within60(history, now')
    /\ UNCHANGED <<perm, projects, team_members, last, local_cache, gw,
                   redis_client, rl, authVars, moreVars>>

LimiterNext == CheckRateLimit \/ Tick

SpecLimiter == LimiterInit /\ [][LimiterNext]_vars

\* ------------------------------------------------------------------------
\* Specifications SpecAuth and SpecSession: the identity service, one action
\* per handler, calls not interleaved, every database write succeeding; auth
\* records the call and what it returned.  SpecAuth: accounts are
\* registered, their status changes through update_user, and logins are
\* tried.  SpecSession: accounts are registered and logged in, their
\* sessions are refreshed and logged out, and the days pass.
\* ------------------------------------------------------------------------
MaxUsers == 2

MaxSessions == 2

MaxAttempts == 3

\* the days the clock shows, one after the other
AuthDays == <<0, 2, 31>>

\* the password an account is registered with
RegisterPasswords == {"pw1"}

otherVars == <<perm, projects, team_members, last, now, local_cache, gw, limiterVars,
               moreVars>>

AuthInit == Init

Register ==
    \E email \in Emails, password \in RegisterPasswords, company_name \in CompanyNames :
        /\ Cardinality(users) < MaxUsers
        /\ LET out == register(users, companies,
                                [email |-> email, password |-> password,
                                 company_name |-> company_name], "none")
           IN  /\ users' = out.users
               /\ companies' = out.companies
               /\ auth' = [op |-> "register", email |-> email, error |-> out.call.error]
        /\ UNCHANGED <<sessions, reg, today, otherVars>>

\* users/service.py delete_user sets inactive; the other values are set by
\* the operators of the database
UpdateUserStatus ==
    \E u \in users, status \in {"active", "inactive", "suspended", "pending"} :
        /\ status # u.status
        /\ users' = update_user(users, u.id, status)
        /\ auth' = [op |-> "update_user"]
        /\ UNCHANGED <<companies, sessions, reg, today, otherVars>>

\* the failed logins in a row for one email, this one included
Attempts(email, error) ==
    IF error = None THEN 0
    ELSE LET before == IF auth.op = "login" /\ auth.email = email THEN auth.attempts ELSE 0
         IN  IF before < MaxAttempts THEN before + 1 ELSE MaxAttempts

Login ==
    \E email \in Emails, password \in Passwords, remember_me \in BOOLEAN :
        LET out == login(users, sessions, email, password, remember_me, today)
        IN  /\ Cardinality(out.sessions) <= MaxSessions
            /\ sessions' = out.sessions
            /\ auth' = [op |-> "login", email |-> email,
                        existed |-> get_user_by_email(users, email) # NoUser,
                        error |-> out.error, issued |-> out.access_token # NoToken,
                        attempts |-> Attempts(email, out.error)]
            /\ UNCHANGED <<users, companies, reg, today, otherVars>>

\* the tokens a client can present: those of the sessions, the one of the
\* last call, and a forged one
Presentable ==
    {row.token : row \in sessions} \cup {ForgedToken}
    \cup (IF auth.op \in {"refresh", "logout"} THEN {auth.token} ELSE {})

Refresh ==
    \E token \in Presentable :
        LET out == refresh_token(users, sessions, token, today)
        IN  /\ sessions' = out.sessions
            /\ auth' = [op |-> "refresh", token |-> token, error |-> out.error,
                        issued |-> out.access_token # NoToken]
            /\ UNCHANGED <<users, companies, reg, today, otherVars>>

Logout ==
    \E token \in Presentable :
        /\ sessions' = logout(sessions, token)
        /\ auth' = [op |-> "logout", token |-> token,
                    deleted |-> Cardinality(sessions) - Cardinality(sessions')]
        /\ UNCHANGED <<users, companies, reg, today, otherVars>>

LogoutAll ==
    \E u \in users :
        /\ sessions' = logout_all(sessions, u.id)
        /\ auth' = [op |-> "logout_all", user_id |-> u.id,
                    deleted |-> Cardinality(sessions) - Cardinality(sessions')]
        /\ UNCHANGED <<users, companies, reg, today, otherVars>>

PassDays ==
    \E i \in 1..(Len(AuthDays) - 1) :
        /\ today = AuthDays[i]
        /\ today' = AuthDays[i + 1]
        /\ auth' = [op |-> "clock"]
        /\ UNCHANGED <<users, companies, sessions, reg, otherVars>>

AuthNext ==
    \/ Register
    \/ UpdateUserStatus
    \/ Login

SpecAuth == AuthInit /\ [][AuthNext]_vars

SessionInit == Init

SessionNext ==
    \/ Register
    \/ Login
    \/ Refresh
    \/ Logout
    \/ LogoutAll
    \/ PassDays

SpecSession == SessionInit /\ [][SessionNext]_vars

\* ------------------------------------------------------------------------
\* Specification SpecRegister: the register calls of RegisterCalls running
\* at the same time, each taking one step per awaited database call; a
\* write may raise.
\* ------------------------------------------------------------------------
RegisterInit == Init

StartRegister ==
    \E call \in RegisterCalls, email \in Emails, password \in RegisterPasswords,
       company_name \in CompanyNames :
        /\ reg[call] = Idle
        /\ reg' = [reg EXCEPT ![call] = RegisterCall([email |-> email, password |-> password,
                                                      company_name |-> company_name])]
        /\ UNCHANGED <<users, companies, sessions, auth, today, otherVars>>

StepRegister ==
    \E call \in RegisterCalls, fails \in BOOLEAN :
        /\ reg[call].pc \notin {"idle", "done"}
        /\ fails => reg[call].pc # "check"
        /\ LET out == register_step(users, companies, reg[call], fails)
           IN  /\ users' = out.users
               /\ companies' = out.companies
               /\ reg' = [reg EXCEPT ![call] = out.call]
        /\ UNCHANGED <<sessions, auth, today, otherVars>>

RegisterNext == StartRegister \/ StepRegister

SpecRegister == RegisterInit /\ [][RegisterNext]_vars

\* ------------------------------------------------------------------------
\* Specification SpecBilling: the subscription operations of the billing
\* service, one action per handler, calls not interleaved.
\* ------------------------------------------------------------------------
MaxSubscriptions == 2

\* uuid4 values for subscription ids
SubscriptionIds == 1..MaxSubscriptions

BillingPlans == {"basic", "professional"}

\* the company admin who calls for each company
BillingUser == [c1 |-> "u1", c2 |-> "u2"]

BillingRoles == {"company_admin", "viewer"}

billOther == <<perm, projects, team_members, last, now, local_cache, gw, limiterVars,
               authVars, contentVars, rc>>

BillingInit == Init

CreateSubscription ==
    \E company_id \in Companies, plan_type \in BillingPlans, interval \in Intervals,
       stripe_ok \in BOOLEAN, db_ok \in BOOLEAN :
        /\ \E id \in SubscriptionIds : \A row \in subscriptions : row.id # id
        /\ LET subscription_id == NewId(SubscriptionIds, {row.id : row \in subscriptions})
               out == create_subscription(subscriptions, company_plan, subscription_id,
                                          company_id, plan_type, BillingUser[company_id],
                                          interval, today, stripe_ok, db_ok)
           IN  /\ subscriptions' = out.subscriptions
               /\ company_plan' = out.company_plan
               /\ bill' = [op |-> "create_subscription", company_id |-> company_id,
                           ok |-> out.result # NoSubscription]
        /\ UNCHANGED billOther

CancelSubscription ==
    \E subscription_id \in SubscriptionIds, company_id \in Companies,
       user_role \in BillingRoles, db_ok \in BOOLEAN :
        /\ LET out == cancel_subscription(subscriptions, company_plan, subscription_id,
                                          company_id, BillingUser[company_id], user_role,
                                          db_ok)
           IN  /\ subscriptions' = out.subscriptions
               /\ company_plan' = out.company_plan
               /\ bill' = [op |-> "cancel_subscription", company_id |-> company_id,
                           ok |-> out.result]
        /\ UNCHANGED billOther

UpdateSubscriptionPlan ==
    \E subscription_id \in SubscriptionIds, new_plan \in BillingPlans,
       company_id \in Companies, user_role \in BillingRoles, db_ok \in BOOLEAN :
        /\ LET out == update_subscription_plan(subscriptions, company_plan,
                                               subscription_id, new_plan, company_id,
                                               BillingUser[company_id], user_role, db_ok)
           IN  /\ subscriptions' = out.subscriptions
               /\ company_plan' = out.company_plan
               /\ bill' = [op |-> "update_subscription_plan", company_id |-> company_id,
                           ok |-> out.result]
        /\ UNCHANGED billOther

BillingNext == CreateSubscription \/ CancelSubscription \/ UpdateSubscriptionPlan

SpecBilling == BillingInit /\ [][BillingNext]_vars

\* ------------------------------------------------------------------------
\* Specification SpecContent: add_document and create_task calls that may
\* run at the same time, each followed from one awaited database call to
\* the next, on projects made by create_project with members added by
\* add_team_member.  Each call runs once.
\* ------------------------------------------------------------------------
\* uuid4 values for document and task ids, one for each call
RecordIds == 1..Cardinality(ServiceCalls)

ContentUsers == {"u1", "u2"}

ContentRoles == {"viewer", "company_admin"}

Records(op) == IF op = "add_document" THEN documents ELSE tasks

contentOther == <<perm, projects, team_members, last, now, local_cache, gw, limiterVars,
                  authVars, billingVars, rc>>

ContentInit == Init

StartCall ==
    \E k \in ServiceCalls, op \in ContentOps, project_id \in ProjectIds,
       user_id \in ContentUsers, user_role \in ContentRoles :
        /\ inflight[k].pc = "idle"
        /\ inflight' = [inflight EXCEPT ![k] = ContentCall(op, project_id, user_id, user_role)]
        /\ UNCHANGED <<documents, tasks, counters, contentOther>>

StepCall ==
    \E k \in ServiceCalls, db_ok \in BOOLEAN :
        /\ inflight[k].pc \notin {"idle", "done"}
        /\ db_ok \/ inflight[k].pc = "insert"
        /\ LET call == inflight[k]
               new_id == NewId(RecordIds, {row.id : row \in Records(call.op)})
               out == content_step(projects, team_members, documents, tasks, counters,
                                   call, new_id, db_ok)
           IN  /\ documents' = out.documents
               /\ tasks' = out.tasks
               /\ counters' = out.counters
               /\ inflight' = [inflight EXCEPT ![k] = out.call]
        /\ UNCHANGED contentOther

\* add_team_member for a user who makes no call here, invited by an owner
AddMember ==
    \E user_id \in Users \ ContentUsers, project_id \in NewProjectIds,
       inviter \in team_members, role \in {"member", "viewer"} :
        /\ inviter.project_id = project_id /\ inviter.role = "owner"
        /\ get_team_member(team_members, project_id, user_id) = NoMember
        /\ LET out == add_team_member(projects, team_members, project_id, user_id,
                                      inviter.user_id, role)
           IN  Apply(out, Call("add_team_member", inviter.user_id, out.ok))

ContentNext == CreateProject \/ AddMember \/ StartCall \/ StepCall

SpecContent == ContentInit /\ [][ContentNext]_vars

\* ------------------------------------------------------------------------
\* Specification SpecRole: a role checker as a pure function.  Init draws
\* the bearer token and the role required; CheckRole applies the checker
\* require_role builds to the user of the token, RequireDependency applies
\* the dependency of that role.
\* ------------------------------------------------------------------------
\* the day the token was issued: still valid today, or expired yesterday
IssueDays == {0, 0 - ACCESS_TOKEN_EXPIRE_DAYS - 1}

RoleTokens ==
    {NoToken, ForgedToken}
    \cup {create_access_token([sub |-> sub, email |-> "a@bouw.nl", role |-> role,
                               company_id |-> company_id], issued) :
            sub \in {"u1", "u2"}, role \in UserRole, company_id \in Companies \cup {None},
            issued \in IssueDays}

RoleInit ==
    /\ \E token \in RoleTokens, required_role \in UserRole :
         rc = [called |-> FALSE, token |-> token, required_role |-> required_role]
    /\ perm = NoPerm
    /\ projects = [p \in ProjectIds |-> NoProject]
    /\ team_members = {}
    /\ last = NoCall
    /\ now = 0
    /\ local_cache = [k \in CacheKeys |-> <<>>]
    /\ gw = NoRequest
    /\ LimiterIdle
    /\ AuthIdle
    /\ subscriptions = {}
    /\ company_plan = [c \in Companies |-> NoPlan]
    /\ bill = NoBill
    /\ documents = {}
    /\ tasks = {}
    /\ counters = [p \in ProjectIds |-> ZeroCounts]
    /\ inflight = [k \in ServiceCalls |-> Idle]

roleOther == <<perm, projects, team_members, last, now, local_cache, gw, limiterVars,
               authVars, billingVars, contentVars>>

CheckRole ==
    /\ ~rc.called
    /\ LET current_user == get_current_user(rc.token, today)
       IN  rc' = [called |-> TRUE, token |-> rc.token, required_role |-> rc.required_role,
                  via |-> "role_checker", current_user |-> current_user,
                  result |-> require_role(rc.required_role, current_user)]
    /\ UNCHANGED roleOther

RequireDependency ==
    /\ ~rc.called
    /\ rc.required_role \in DependencyRoles
    /\ rc' = [called |-> TRUE, token |-> rc.token, required_role |-> rc.required_role,
              via |-> "dependency", current_user |-> get_current_user(rc.token, today),
              result |-> require_dependency(rc.required_role, rc.token, today)]
    /\ UNCHANGED roleOther

RoleNext == CheckRole \/ RequireDependency

SpecRole == RoleInit /\ [][RoleNext]_vars

\* ------------------------------------------------------------------------
\* Specification SpecStatus: sessions of users whose status changes after
\* the login (register, login, refresh_token, and the status change of
\* UserService.update_user / delete_user).
\* ------------------------------------------------------------------------
StatusInit == Init

StatusNext == Register \/ UpdateUserStatus \/ Login \/ Refresh

SpecStatus == StatusInit /\ [][StatusNext]_vars

\* ------------------------------------------------------------------------
\* Specification SpecVerify: register, verify_email and login.
\* ------------------------------------------------------------------------
VerifyInit == Init

VerifyEmail ==
    \E email \in Emails :
        LET out == verify_email(users, VerificationToken(email))
        IN  /\ users' = out.users
            /\ auth' = [op |-> "verify_email", email |-> email, ok |-> out.ok]
            /\ UNCHANGED <<companies, sessions, reg, today, otherVars>>

VerifyNext == Register \/ VerifyEmail \/ Login

SpecVerify == VerifyInit /\ [][VerifyNext]_vars

\* ------------------------------------------------------------------------
\* Specification SpecRemove: remove_team_member calls that may run at the
\* same time, each by a member on its own membership, on a project with
\* several owners.  Each call runs once.
\* ------------------------------------------------------------------------
RemoveProject == "p1"

RemoveRoles == {"viewer"}

removeOther == <<perm, now, local_cache, gw, limiterVars, authVars, billingVars,
                 documents, tasks, counters, rc>>

RemoveInit == Init

\* create_project with status active
CreateActiveProject ==
    \E user_id \in Users :
        /\ projects[RemoveProject] = NoProject
        /\ LET out == create_project(projects, team_members, RemoveProject, "active",
                                     user_id)
           IN  Apply(out, Call("create_project", user_id, out.ok))

\* add_team_member with role owner, invited by an owner
AddOwner ==
    \E user_id \in Users, inviter \in get_project_owners(team_members, RemoveProject) :
        /\ get_team_member(team_members, RemoveProject, user_id) = NoMember
        /\ LET out == add_team_member(projects, team_members, RemoveProject, user_id,
                                      inviter.user_id, "owner")
           IN  Apply(out, Call("add_team_member", inviter.user_id, out.ok))

StartRemove ==
    \E k \in ServiceCalls, remover_id \in Users, user_role \in RemoveRoles :
        /\ inflight[k].pc = "idle"
        /\ inflight' = [inflight EXCEPT ![k] =
               RemoveCall(RemoveProject,
                          [project_id |-> RemoveProject, user_id |-> remover_id],
                          remover_id, user_role)]
        /\ UNCHANGED <<projects, team_members, last, removeOther>>

StepRemove ==
    \E k \in ServiceCalls, success \in BOOLEAN :
        /\ inflight[k].pc \notin {"idle", "done"}
        /\ success \/ inflight[k].pc = "delete"
        /\ LET out == remove_step(projects, team_members, inflight[k], success)
           IN  /\ projects' = out.projects
               /\ team_members' = out.team_members
               /\ inflight' = [inflight EXCEPT ![k] = out.call]
        /\ UNCHANGED <<last, removeOther>>

RemoveNext == CreateActiveProject \/ AddOwner \/ StartRemove \/ StepRemove

SpecRemove == RemoveInit /\ [][RemoveNext]_vars

\* ------------------------------------------------------------------------
\* Specification SpecPerm: check_permission as a pure function.  Init draws
\* the arguments (and the two companies the call is about: the actor's, from
\* the token, and the project's, from its row); Evaluate applies the check.
\* ------------------------------------------------------------------------
MemberInputs ==
    {NoMember} \cup [role : TeamRole, is_active : BOOLEAN]

PermInputs ==
    [user_id : {"u1", "u2"}, user_role : UserRole, user_company : Companies,
     project_id : ProjectIds, project_company : Companies,
     team_member : MemberInputs, action : ActionInputs,
     project_status : ProjectStatus \cup {None}]

PermInit ==
    /\ \E args \in PermInputs : perm = [called |-> FALSE, args |-> args]
    /\ projects = [p \in ProjectIds |-> NoProject]
    /\ team_members = {}
    /\ last = NoCall
    /\ now = 0
    /\ local_cache = [k \in CacheKeys |-> <<>>]
    /\ gw = NoRequest
    /\ LimiterIdle
    /\ AuthIdle
    /\ MoreIdle

Evaluate ==
    /\ ~perm.called
    /\ perm' = [called |-> TRUE, args |-> perm.args,
                result |-> check_permission(perm.args.user_id, perm.args.user_role,
                                            perm.args.project_id, perm.args.team_member,
                                            perm.args.action, perm.args.project_status)]
    /\ UNCHANGED <<projects, team_members, last, now, local_cache, gw, limiterVars,
                   authVars, moreVars>>

PermNext == Evaluate

SpecPerm == PermInit /\ [][PermNext]_vars

\* ------------------------------------------------------------------------
\* The permission matrix as the specification tabulates it (section 4.4),
\* one line per action: the team roles the action is granted to.
\* ------------------------------------------------------------------------
GrantedTo(action) ==
    CASE action = "view"                -> {"owner", "manager", "member", "viewer"}
      [] action = "edit"                -> {"owner", "manager", "member"}
      [] action = "delete"              -> {"owner"}
      [] action = "manage_team"         -> {"owner", "manager"}
      [] action = "manage_documents"    -> {"owner", "manager", "member"}
      [] action = "manage_tasks"        -> {"owner", "manager", "member"}
      [] action = "manage_calculations" -> {"owner", "manager", "member"}
      [] action = "change_settings"     -> {"owner", "manager"}
      [] action = "archive"             -> {"owner"}

ByTeamRole(user_role) == user_role \notin {"admin", "company_admin"}

ActiveMember(team_member) == team_member # NoMember /\ team_member.is_active

\* C1: for an actor who is neither admin nor company_admin, with an active
\* membership, on a project neither archived nor completed, check_permission
\* returns exactly the matrix entry of (team_role, action), for every user id
\* and project id.
C1_MatrixExact ==
    (/\ perm.called
     /\ ByTeamRole(perm.args.user_role)
     /\ ActiveMember(perm.args.team_member)
     /\ perm.args.project_status \notin {"archived", "completed"}
     /\ perm.args.action \in MatrixActions)
    => perm.result = (perm.args.team_member.role \in GrantedTo(perm.args.action))

C1_Witness ==
    /\ perm.called
    /\ perm.args.user_role = "estimator"
    /\ perm.args.user_id = "u2" /\ perm.args.project_id = "p1"
    /\ perm.args.team_member = [role |-> "member", is_active |-> TRUE]
    /\ perm.args.action = "change_settings"
    /\ perm.args.project_status = "active"
    /\ perm.result = FALSE

\* C2: a company_admin is allowed by the permission check only on projects of
\* the actor's own company, and denied on every other project, membership or
\* not.
C2_CompanyAdminOwnTenantOnly ==
    (perm.called /\ perm.args.user_role = "company_admin")
    => (perm.result = (perm.args.project_company = perm.args.user_company))

\* C5: an admin is allowed every action on every project, whatever the
\* membership and the project status.
C5_AdminAllowsAll ==
    (perm.called /\ perm.args.user_role = "admin") => perm.result = TRUE

C5_Witness ==
    /\ perm.called
    /\ perm.args.user_role = "admin"
    /\ perm.args.team_member = NoMember
    /\ perm.args.action = "delete"
    /\ perm.args.project_status = "archived"
    /\ perm.result = TRUE

\* C6: an actor who is neither admin nor company_admin is denied every action
\* when the membership is absent or inactive, whatever the stored team role.
C6_NonMemberDenied ==
    (/\ perm.called
     /\ ByTeamRole(perm.args.user_role)
     /\ ~ActiveMember(perm.args.team_member))
    => perm.result = FALSE

C6_Witness ==
    /\ perm.called
    /\ perm.args.user_role = "project_manager"
    /\ perm.args.team_member = [role |-> "owner", is_active |-> FALSE]
    /\ perm.args.action = "view"
    /\ perm.args.project_status = "active"
    /\ perm.result = FALSE

Exists(project_id) == projects[project_id] # NoProject

Unchanged(out) == out.projects = projects /\ out.team_members = team_members

\* the team role of an active member, None for anyone else
TeamRoleOf(project_id, user_id) ==
    LET m == get_team_member(team_members, project_id, user_id)
    IN  IF ActiveMember(m) THEN m.role ELSE None

ActiveOwners(tms, project_id) ==
    {m \in tms : m.project_id = project_id /\ m.role = "owner" /\ m.is_active}

\* C3: add_team_member creates a membership only when the inviter holds the
\* manage_team grant on the project and the granted role is at or below the
\* inviter's own team role; otherwise no membership is created and
\* team_member_count is unchanged.
C3_AddNeedsBothGuards ==
    [][ last'.op = "add_team_member" =>
          \/ team_members' = team_members /\ projects' = projects
          \/ \E m \in team_members' \ team_members :
                LET inviter_role == TeamRoleOf(m.project_id, last'.user_id)
                IN  /\ inviter_role # None
                    /\ inviter_role \in GrantedTo("manage_team")
                    /\ role_hierarchy[inviter_role] >= role_hierarchy[m.role]
      ]_vars

\* C4: remove_team_member on an owner membership is rejected (returns false,
\* deletes nothing), whoever the remover is, when the project has at most one
\* active owner, and succeeds for a permitted remover when there is another; so
\* a project that had an active owner still has one after remove_team_member.
C4_LastOwnerKept ==
    [][ last'.op = "remove_team_member" =>
          /\ \A m \in team_members \ team_members' :
                m.role = "owner" =>
                    Cardinality(ActiveOwners(team_members, m.project_id)) > 1
          /\ \A project_id \in ProjectIds :
                ActiveOwners(team_members, project_id) # {} =>
                    ActiveOwners(team_members', project_id) # {}
          /\ \A project_id \in ProjectIds, member_id \in MemberIds, remover_id \in Users,
                user_role \in UserRole :
                LET member == get_team_member_by_id(team_members, member_id)
                    out == remove_team_member(projects, team_members, project_id,
                                              member_id, remover_id, user_role)
                IN  (/\ member # NoMember
                     /\ member.project_id = project_id
                     /\ member.role = "owner"
                     /\ Cardinality(ActiveOwners(team_members, project_id)) > 1
                     /\ check_permission(remover_id, user_role, project_id,
                                         get_team_member(team_members, project_id, remover_id),
                                         "manage_team", None))
                    => (out.ok /\ member \notin out.team_members)
      ]_vars

C10_BearerRequestsRateLimited ==
    (/\ gw.served
     /\ gw.request.credential = "bearer_valid"
     /\ gw.request.path # WebhookPath)
    => /\ gw.limiter_checked
       /\ ~gw.allowed => (~gw.handler_invoked /\ gw.status = 429 /\ gw.headers # NoHeaders)

\* ------------------------------------------------------------------------
\* Claims about the rate limiter (specification SpecLimiter).  A check is
\* judged in every reachable state, for the time now and for later times.
\* ------------------------------------------------------------------------
Ahead == {0, 30, 59, 60}

\* the Redis server as a command at time t finds it
RedisAt(t) == redis_purge(redis, t)

CheckAt(t, plan, fault) ==
    check_rate_limit(redis_client, RedisAt(t), local_cache, t, LimiterUser, plan,
                     LimiterEndpoint, fault)

\* The checks already made in the window a check at time t falls in: the
\* minute bucket of t with Redis, the 60 seconds before t without.
WindowCalls(t) ==
    IF redis_client
    THEN BagCardinality([c \in {x \in DOMAIN history : x \div 60 = t \div 60} |-> history[c]])
    ELSE BagCardinality(Within60(history, t))

\* the count a check at time t raises the bucket of the window to
CountAfter(window, t) ==
    RedisCount(RedisAt(t), RedisKey(LimiterUser, LimiterEndpoint, window, t)) + 1

C12_RedisAllThreeCaps ==
    redis_client =>
        \A plan \in SubscriptionPlan, caller \in {LimiterKey, <<"u2", WebhookPath>>} :
            LET limits == plan_limits[plan]
                result == _check_redis_rate_limit(redis, now, caller[1], limits, caller[2], 0)
                Key(window) == RedisKey(caller[1], caller[2], window, now)
                After(window) == RedisCount(result.redis, Key(window))
            IN  /\ ~result.raised
                /\ \A window \in RedisWindows :
                      After(window) = RedisCount(redis, Key(window)) + 1
                /\ DOMAIN result.redis = DOMAIN redis \cup {Key(window) : window \in RedisWindows}
                /\ \A key \in DOMAIN redis :
                      key \notin {Key(window) : window \in RedisWindows}
                          => result.redis[key] = redis[key]
                /\ result.allowed <=> /\ After("minute") <= limits.requests_per_minute
                                      /\ After("hour") <= limits.requests_per_hour
                                      /\ After("day") <= limits.requests_per_day

\* a check has been denied for the hour cap alone
C12_Witness ==
    /\ redis_client
    /\ rl.called /\ ~rl.allowed /\ now \in DOMAIN history
    /\ CountAfter("minute", now) - 1 <= plan_limits["free"].requests_per_minute
    /\ CountAfter("hour", now) - 1 > plan_limits["free"].requests_per_hour
    /\ CountAfter("day", now) - 1 <= plan_limits["free"].requests_per_day

\* limits with the per-minute cap of a plan and any hour and day cap
AnyLimits ==
    [requests_per_minute : {plan_limits[plan].requests_per_minute : plan \in SubscriptionPlan},
     requests_per_hour : {0, 1000}, requests_per_day : {0, 10000}]

\* C13: without Redis, a check keeps of the timestamps of its (actor,
\* endpoint) those less than 60 seconds old, adds the current time, leaves the
\* other keys alone, and is allowed if and only if the timestamps kept, the
\* current one included, number at most the per-minute cap, whatever the hour
\* and day caps are.
C13_LocalMinuteOnly ==
    \A ahead \in Ahead, limits \in AnyLimits :
        LET t == now + ahead
            result == _check_local_rate_limit(local_cache, t, LimiterUser, limits,
                                              LimiterEndpoint)
            old == local_cache[LimiterKey]
            new == result.cache[LimiterKey]
            kept == Cardinality({i \in 1..Len(old) : t - old[i] < 60})
        IN  /\ Len(new) = kept + 1
            /\ new[Len(new)] = t
            /\ \A i \in 1..Len(new) : t - new[i] < 60
            /\ \A i \in 1..kept : \E j \in 1..Len(old) : old[j] = new[i]
            /\ \A key \in CacheKeys \ {LimiterKey} : result.cache[key] = local_cache[key]
            /\ result.allowed <=> kept + 1 <= limits.requests_per_minute

\* without Redis, a check at the later time was denied: the timestamps of
\* the minute before are gone from the list, which holds 61 or more new ones
C13_Witness ==
    /\ ~redis_client
    /\ rl.called /\ ~rl.allowed
    /\ now = LimiterStart + LimiterStep
    /\ Len(local_cache[LimiterKey]) > plan_limits["free"].requests_per_minute
    /\ \A i \in 1..Len(local_cache[LimiterKey]) : local_cache[LimiterKey][i] = now

\* C14: when a Redis command raises during the check, check_rate_limit
\* returns allowed = true from its except branch, and the gateway goes on to
\* the route handler.
C14_FailOpen ==
    redis_client =>
        \A plan \in LimiterPlans, fault \in Faults \ {0} :
            LET attempt == _check_redis_rate_limit(redis, now, LimiterUser, plan_limits[plan],
                                                   LimiterEndpoint, fault)
                result == CheckAt(now, plan, fault)
                request == [credential |-> "api_key_valid", user |-> LimiterUser,
                            path |-> LimiterEndpoint, subscription |-> plan]
                response == api_gateway_middleware(redis_client, redis, local_cache, now,
                                                   request, fault)
            IN  attempt.raised =>
                    /\ result.error
                    /\ result.allowed
                    /\ response.gw.limiter_checked /\ response.gw.handler_invoked
                    /\ response.gw.status = 200

\* a check whose Redis command failed after the minute counter had passed
\* the cap was allowed
C14_Witness ==
    /\ redis_client
    /\ rl.called /\ rl.error /\ rl.allowed
    /\ CountAfter("minute", now) - 1 > plan_limits["free"].requests_per_minute

\* ------------------------------------------------------------------------
\* Claims about login (specification SpecAuth).  A call is judged in every
\* reachable state, for every argument.
\* ------------------------------------------------------------------------
\* an email that is never registered
Nobody == "nobody@bouw.nl"

NoTokens(result) == result.access_token = NoToken /\ result.refresh_token = NoToken

\* C15: login with an email no account has and login with the email of an
\* account, whatever its status, and a wrong password return the same error,
\* on every attempt; neither returns a token nor creates a session.
C15_SameErrorUnknownOrWrongPassword ==
    /\ \A unknown \in Emails \cup {Nobody}, known \in users, password \in Passwords,
          wrong \in Passwords, remember_me \in BOOLEAN :
            (/\ \A u \in users : u.email # unknown
             /\ ~verify_password(wrong, known.hashed_password))
            => LET absent == login(users, sessions, unknown, password, remember_me, today)
                   refused == login(users, sessions, known.email, wrong, remember_me, today)
               IN  /\ absent.error # None
                   /\ absent.error = refused.error
                   /\ NoTokens(absent) /\ NoTokens(refused)
                   /\ absent.sessions = sessions /\ refused.sessions = sessions
    /\ (auth.op = "login" /\ ~auth.existed)
       => (auth.error = "Invalid credentials" /\ ~auth.issued)

\* the third failed login in a row for the email of a suspended account got
\* the error an unknown email gets
C15_Witness ==
    /\ auth.op = "login" /\ auth.existed /\ ~auth.issued
    /\ auth.attempts = MaxAttempts
    /\ auth.error = login(users, sessions, Nobody, "pw1", FALSE, today).error
    /\ \E u \in users : u.email = auth.email /\ u.status = "suspended"

\* the error of each status that bars login
StatusError ==
    [inactive |-> "Account is inactive", suspended |-> "Account is suspended",
     pending |-> "Account pending verification"]

\* C16: login with the right password for an account that is inactive,
\* suspended or pending returns the error of that status, no access or
\* refresh token, and leaves the sessions table as it was.
C16_BarredStatusNoToken ==
    \A u \in users, password \in Passwords, remember_me \in BOOLEAN :
        (verify_password(password, u.hashed_password) /\ u.status \in DOMAIN StatusError)
        => LET result == login(users, sessions, u.email, password, remember_me, today)
           IN  /\ result.error = StatusError[u.status]
               /\ NoTokens(result)
               /\ result.sessions = sessions

\* a login with the right password was refused for a suspended account that
\* had logged in before
C16_Witness ==
    /\ auth.op = "login" /\ auth.existed /\ ~auth.issued
    /\ auth.error = StatusError["suspended"]
    /\ \E u \in users : /\ u.email = auth.email /\ u.status = "suspended"
                        /\ \E row \in sessions : row.user_id = u.id

\* ------------------------------------------------------------------------
\* Claims about sessions (specification SpecSession)
\* ------------------------------------------------------------------------
\* C17: a refresh with a token whose session has an expiry that has passed
\* returns the expired error and no access token and deletes the session: the
\* session is no longer retrievable, and a refresh with the same token then
\* returns the invalid-token error.
C17_ExpiredRefreshDeletesSession ==
    [][(/\ auth'.op = "refresh"
        /\ \E row \in sessions : row.token = auth'.token /\ row.expires_at < today)
       => /\ auth'.error = "Refresh token expired"
          /\ ~auth'.issued
          /\ get_session(sessions', auth'.token) = NoSession
          /\ refresh_token(users', sessions', auth'.token, today').error
               = "Invalid refresh token"]_vars

\* C18: logout deletes the sessions with the token given and no other,
\* logout_all deletes the sessions of the user given and no other; a refresh
\* with a token so deleted returns the invalid-token error.
C18_LogoutDeletesExactly ==
    /\ \A token \in Presentable :
         LET after == logout(sessions, token)
         IN  /\ after \subseteq sessions
             /\ \A row \in sessions : row \in after <=> row.token # token
             /\ refresh_token(users, after, token, today).error = "Invalid refresh token"
    /\ \A user_id \in Users :
         LET after == logout_all(sessions, user_id)
         IN  /\ after \subseteq sessions
             /\ \A row \in sessions : row \in after <=> row.user_id # user_id
             /\ \A row \in sessions \ after :
                   refresh_token(users, after, row.token, today).error
                     = "Invalid refresh token"

\* logout_all has deleted a session of its user and another user's session
\* is still there
C18_Witness ==
    /\ auth.op = "logout_all" /\ auth.deleted >= 1
    /\ \E row \in sessions : row.user_id # auth.user_id

\* ------------------------------------------------------------------------
\* Claims about register (specification SpecRegister)
\* ------------------------------------------------------------------------
\* C19: register for an email that has an account returns the duplicate-email
\* error and writes no company and no user; and whatever register calls have
\* run, one after the other or at the same time, no two rows of users have
\* the same email.
C19_NoTwoUsersShareEmail ==
    /\ \A email \in Emails, password \in Passwords, company_name \in CompanyNames :
         (\E u \in users : u.email = email)
         => LET out == register(users, companies,
                                [email |-> email, password |-> password,
                                 company_name |-> company_name], "none")
            IN  /\ out.call.error = "User with this email already exists"
                /\ out.users = users /\ out.companies = companies
    /\ \A u1 \in users, u2 \in users : u1.email = u2.email => u1 = u2

\* C20: a register call with a company name whose user write failed has
\* returned an error and left its company without owner; every company's
\* owner_id is null or the id of a row of users; and after a register call
\* with a company name has returned without error its company's owner_id is
\* the id of the user it created.
C20_CompanyOwnerIsItsUser ==
    /\ \A call \in RegisterCalls :
         (reg[call].pc = "done" /\ reg[call].error = "Failed to create user")
         => \A c \in companies : c.id = reg[call].company_id => c.owner_id = None
    /\ \A c \in companies : c.owner_id = None \/ \E u \in users : u.id = c.owner_id
    /\ \A call \in RegisterCalls :
         (reg[call].pc = "done" /\ reg[call].error = None /\ reg[call].company_name # None)
         => \E c \in companies : c.id = reg[call].company_id /\ c.owner_id = reg[call].user_id

\* ------------------------------------------------------------------------
\* Claims about billing (specification SpecBilling)
\* ------------------------------------------------------------------------
ActiveSubscriptions(company_id) ==
    {row \in subscriptions : row.company_id = company_id /\ row.status = "active"}

\* C21: whatever create_subscription, cancel_subscription and
\* update_subscription_plan calls have run, every company has at most one
\* subscription with status active.
C21_OneActiveSubscription ==
    \A company_id \in Companies : Cardinality(ActiveSubscriptions(company_id)) <= 1

\* ------------------------------------------------------------------------
\* Claims about documents, tasks and their counters (specification
\* SpecContent)
\* ------------------------------------------------------------------------
RecordsOf(op, project_id) == {row \in Records(op) : row.project_id = project_id}

Counter(op, project_id) == counters[project_id][CountColumn(op)]

\* both calls have returned their record, for the same project and table,
\* and each has read and written the counter
BothAdded(k1, k2) ==
    /\ k1 # k2
    /\ inflight[k1].pc = "done" /\ inflight[k2].pc = "done"
    /\ inflight[k1].ok /\ inflight[k2].ok
    /\ inflight[k1].op = inflight[k2].op
    /\ inflight[k1].project_id = inflight[k2].project_id
    /\ inflight[k1].current_count # NotRead /\ inflight[k2].current_count # NotRead

\* C22: a counter is never above the number of records of its project; when
\* two add_document (or two create_task) calls on one project have both
\* succeeded and both read the same count before either wrote, the counter
\* has grown by 1 only and is below the number of records; when one read
\* after the other's write, the counter equals the number of records.
C22_CounterLosesInterleavedUpdate ==
    /\ \A op \in ContentOps, project_id \in ProjectIds :
         Counter(op, project_id) <= Cardinality(RecordsOf(op, project_id))
    /\ \A k1 \in ServiceCalls, k2 \in ServiceCalls :
         BothAdded(k1, k2)
         => LET op == inflight[k1].op
                project_id == inflight[k1].project_id
            IN  IF inflight[k1].current_count = inflight[k2].current_count
                THEN /\ Counter(op, project_id) = inflight[k1].current_count + 1
                     /\ Counter(op, project_id) < Cardinality(RecordsOf(op, project_id))
                ELSE Counter(op, project_id) = Cardinality(RecordsOf(op, project_id))

\* two add_document calls on p1 have both succeeded, there are two documents
\* and document_count is 1
C22_Witness ==
    /\ BothAdded("k1", "k2")
    /\ inflight["k1"].op = "add_document" /\ inflight["k1"].project_id = "p1"
    /\ Cardinality(RecordsOf("add_document", "p1")) = 2
    /\ counters["p1"].document_count = 1

\* ------------------------------------------------------------------------
\* Claims about the role checkers (specification SpecRole)
\* ------------------------------------------------------------------------
\* the ranks as the claim gives them
Rank == [admin |-> 4, company_admin |-> 3, project_manager |-> 2, estimator |-> 1,
         viewer |-> 0]

\* C23: the role checker of require_role(min) returns the actor if and only
\* if the actor is authenticated and rank(actor.role) >= rank(min) or the
\* actor's role is admin; it refuses an absent actor with 401 and every
\* other actor with 403.  The dependencies require_admin .. require_estimator
\* decide the same way.
C23_RequireRoleByRank ==
    rc.called
    => LET actor == rc.current_user
           passes == /\ actor # NoPayload
                     /\ \/ Rank[actor.role] >= Rank[rc.required_role]
                        \/ actor.role = "admin"
       IN  /\ rc.result.status_code = 200 <=> passes
           /\ passes => rc.result.user = actor
           /\ actor = NoPayload => rc.result.status_code = 401
           /\ (actor # NoPayload /\ ~passes) => rc.result.status_code = 403

\* a project manager was passed by the checker for project_manager, its own rank
C23_Witness ==
    /\ rc.called /\ rc.via = "role_checker"
    /\ rc.required_role = "project_manager"
    /\ rc.current_user # NoPayload
    /\ rc.current_user.role = "project_manager"
    /\ rc.result.status_code = 200

\* ------------------------------------------------------------------------
\* Claims about the project service, second part (specification Spec)
\* ------------------------------------------------------------------------
\* C24: remove_team_member by a remover without the manage_team grant, on a
\* member whose team role is higher than or equal to the remover's own,
\* returns false and deletes nothing.
C24_NoRemovalOfEqualOrHigher ==
    \A project_id \in ProjectIds, member_id \in MemberIds, remover_id \in Users,
       user_role \in UserRole :
        LET member == get_team_member_by_id(team_members, member_id)
            remover_member == get_team_member(team_members, project_id, remover_id)
            out == remove_team_member(projects, team_members, project_id, member_id,
                                      remover_id, user_role)
        IN  (/\ member # NoMember
             /\ member.project_id = project_id
             /\ remover_member # NoMember
             /\ ~check_permission(remover_id, user_role, project_id, remover_member,
                                  "manage_team", None)
             /\ role_hierarchy[member.role] >= role_hierarchy[remover_member.role])
            => (~out.ok /\ Unchanged(out))

\* the owner-only grants of the matrix, held by an active member
HoldsArchiveGrant(team_member) ==
    /\ ActiveMember(team_member)
    /\ PROJECT_PERMISSIONS[team_member.role]["delete"]
    /\ PROJECT_PERMISSIONS[team_member.role]["archive"]

\* C25: a call that moves a project to status archived is made by an actor
\* with global role admin or company_admin or by an active member holding
\* the owner-only delete/archive grant; update_project and delete_project by
\* anyone else leave a project that is not archived not archived.
C25_ArchiveNeedsOwnerGrant ==
    \A project_id \in ProjectIds, user_id \in Users, user_role \in UserRole,
       status \in ProjectStatus \cup {None} :
        LET project == get_project_by_id(projects, project_id)
            team_member == get_team_member(team_members, project_id, user_id)
            updated == update_project(projects, team_members, project_id, status,
                                      user_id, user_role)
            deleted == delete_project(projects, team_members, project_id, user_id,
                                      user_role)
        IN  (/\ project # NoProject
             /\ project.status # "archived"
             /\ user_role \notin {"admin", "company_admin"}
             /\ ~HoldsArchiveGrant(team_member))
            => /\ updated.projects[project_id].status # "archived"
               /\ deleted.projects[project_id].status # "archived"

MembersOf(project_id) == {m \in team_members : m.project_id = project_id}

\* C28: in every state reached by create_project, add_team_member and
\* remove_team_member calls run one after the other, team_member_count of a
\* project equals the number of its team member records, and it is 1 right
\* after create_project.
C28_TeamCountIsMemberCount ==
    /\ \A project_id \in ProjectIds :
         projects[project_id] # NoProject
         => projects[project_id].team_member_count = Cardinality(MembersOf(project_id))
    /\ (last.op = "create_project" /\ last.ok)
         => \E project_id \in ProjectIds :
               /\ projects[project_id] # NoProject
               /\ projects[project_id].team_member_count = 1

\* ------------------------------------------------------------------------
\* Claims about sessions and user status (specification SpecStatus)
\* ------------------------------------------------------------------------
\* C26: a refresh_token call returns an access token only for a user whose
\* status is active at the time of the call, also when the session was
\* created while the user was active.
C26_NoRefreshForBarredUser ==
    [][(auth'.op = "refresh" /\ auth'.issued)
       => \A u \in users : u.id = auth'.token.sub => u.status = "active"]_vars

\* ------------------------------------------------------------------------
\* Claims about email verification (specification SpecVerify)
\* ------------------------------------------------------------------------
\* C29: a user registered with a company name starts with status pending,
\* and a login with the registered email and password that follows a
\* successful verify_email for that user returns a token pair.
C29_VerifiedUserCanLogIn ==
    [][/\ (auth'.op = "register" /\ auth'.error = None)
          => \A u \in users' \ users : u.company_id # None => u.status = "pending"
       /\ (/\ auth.op = "verify_email" /\ auth.ok
           /\ auth'.op = "login" /\ auth'.email = auth.email
           /\ auth'.existed /\ auth'.error # "Invalid credentials")
          => auth'.issued]_vars

\* ------------------------------------------------------------------------
\* Claims about concurrent removals (specification SpecRemove)
\* ------------------------------------------------------------------------
\* C27: when owners of a project call remove_team_member on their own
\* membership, however the calls interleave, the project keeps at least one
\* active owner.
C27_OwnerRemainsUnderInterleaving ==
    projects[RemoveProject] # NoProject => ActiveOwners(team_members, RemoveProject) # {}

\* ------------------------------------------------------------------------
\* Claims about refused writes (specification SpecContent)
\* ------------------------------------------------------------------------
\* the tables a document or task call leaves as they are
NothingWritten(out) ==
    /\ out.documents = documents
    /\ out.tasks = tasks
    /\ out.counters = counters
    /\ ~out.call.ok

\* C30: when the permission check denies the actor, update_project and
\* delete_project return nothing and leave the project row and the team as
\* they were, and add_document and create_task return nothing, create no
\* document or task record and leave the counters as they were.
C30_DeniedCallsWriteNothing ==
    \A project_id \in ProjectIds, user_id \in Users, user_role \in UserRole :
        LET project == get_project_by_id(projects, project_id)
            team_member == get_team_member(team_members, project_id, user_id)
            Denied(action, project_status) ==
                ~check_permission(user_id, user_role, project_id, team_member, action,
                                  project_status)
        IN  /\ (project # NoProject /\ Denied("edit", project.status))
               => \A status \in ProjectStatus \cup {None} :
                     LET out == update_project(projects, team_members, project_id,
                                               status, user_id, user_role)
                     IN  ~out.ok /\ Unchanged(out)
            /\ (project # NoProject /\ Denied("delete", project.status))
               => LET out == delete_project(projects, team_members, project_id,
                                            user_id, user_role)
                  IN  ~out.ok /\ Unchanged(out)
            /\ Denied("manage_documents", None)
               => \A db_ok \in BOOLEAN :
                     NothingWritten(add_document(projects, team_members, documents, tasks,
                                                 counters, project_id, user_id, user_role,
                                                 1, db_ok))
            /\ Denied("manage_tasks", None)
               => \A db_ok \in BOOLEAN :
                     NothingWritten(create_task(projects, team_members, documents, tasks,
                                                counters, project_id, user_id, user_role,
                                                1, db_ok))

\* an add_document call was refused by the permission check on a project
\* that has a document and document_count 1, and a team member of that
\* project is denied the edit
C30_Witness ==
    /\ \E k \in ServiceCalls :
         /\ inflight[k].pc = "done" /\ inflight[k].denied
         /\ inflight[k].op = "add_document" /\ inflight[k].project_id = "p1"
    /\ RecordsOf("add_document", "p1") # {}
    /\ counters["p1"].document_count = 1
    /\ \E m \in team_members : m.project_id = "p1" /\ m.role = "viewer"

====
